---- MODULE Spec2Model ----
(***************************************************************************)
(* Secure Whisper: message codec, chat-id derivation, friendship store,    *)
(* message store and the WebSocket fan-out hub of server/index.js, with    *)
(* the chat page of the client.                                            *)
(*                                                                         *)
(* Strings are sequences of UTF-16 code units, buffers are sequences of    *)
(* bytes, base64 text is a sequence of sextets with BASE64_PAD for '='.    *)
(***************************************************************************)
EXTENDS Integers, Sequences, FiniteSets, TLC

(* ---------------------------------------------------------------------- *)
(* Bounds                                                                  *)
(* ---------------------------------------------------------------------- *)
MaxTextLen == 2
NumIvs == 1
MaxIdNum == 11
NumConns == 2
NumReqs == 1
NumUsers == 2
NumChats == 2
NumFriendReqs == 2
NumRegReqs == 2
NumLoginReqs == 2
NumAppends == 2
NumHistReqs == 1
MaxClock == 2
NumListReqs == 1
MaxPending == 4
NumFetches == 2

(* ---------------------------------------------------------------------- *)
(* Program constants                                                       *)
(* ---------------------------------------------------------------------- *)
KEY_LEN == 32
IV_LEN == 12
TAG_LEN == 16
BASE64_PAD == 64
REPLACEMENT == 65533
SPACE == 32
GCM_PRIME == 251
DEFAULT_KEY ==
  <<100, 101, 118, 95, 107, 101, 121, 95, 51, 50, 95, 98, 121, 116, 101, 115,
    95, 108, 111, 110, 103, 95, 102, 111, 114, 95, 100, 101, 109, 111, 33, 33>>

VARIABLES
  envKey,          \* process.env.ENCRYPTION_KEY (<<>> when unset or empty)
  started,         \* the module-level configuration has been evaluated
  ENCRYPTION_KEY,  \* the configured key
  cstage,          \* position of the codec driver
  plain,           \* argument of the last encrypt call
  enc,             \* { data, iv } returned by encrypt (possibly altered)
  tamper,          \* which part of enc was altered after encrypt, if any
  dec              \* outcome of the last decrypt call

codecVars == <<envKey, started, ENCRYPTION_KEY, cstage, plain, enc, tamper, dec>>

(* ---------------------------------------------------------------------- *)
(* Byte and text helpers                                                   *)
(* ---------------------------------------------------------------------- *)
RECURSIVE Xor(_, _)
Xor(a, b) ==
  IF a = 0 THEN b
  ELSE IF b = 0 THEN a
  ELSE (((a % 2) + (b % 2)) % 2) + 2 * Xor(a \div 2, b \div 2)

RECURSIVE PolyHash(_, _, _)
PolyHash(s, base, m) ==
  IF s = <<>> THEN 0 ELSE (base * (Head(s) + PolyHash(Tail(s), base, m))) % m

RECURSIVE SumSeq(_)
SumSeq(s) == IF s = <<>> THEN 0 ELSE Head(s) + SumSeq(Tail(s))

Slice(s, from, to) == [i \in 1..(to - from) |-> s[from + i]]

IsHigh(u) == u >= 55296 /\ u <= 56319
IsLow(u) == u >= 56320 /\ u <= 57343

EncodeCodePoint(cp) ==
  IF cp < 128 THEN <<cp>>
  ELSE IF cp < 2048 THEN <<192 + (cp \div 64), 128 + (cp % 64)>>
  ELSE IF cp < 65536
    THEN <<224 + (cp \div 4096), 128 + ((cp \div 64) % 64), 128 + (cp % 64)>>
  ELSE <<240 + (cp \div 262144), 128 + ((cp \div 4096) % 64),
         128 + ((cp \div 64) % 64), 128 + (cp % 64)>>

RECURSIVE Utf8Encode(_)
Utf8Encode(text) ==
  IF text = <<>> THEN <<>>
  ELSE LET u == Head(text) IN
    IF IsHigh(u) /\ Len(text) >= 2 /\ IsLow(text[2])
      THEN EncodeCodePoint(65536 + (u - 55296) * 1024 + (text[2] - 56320))
             \o Utf8Encode(Tail(Tail(text)))
    ELSE IF IsHigh(u) \/ IsLow(u)
      THEN EncodeCodePoint(REPLACEMENT) \o Utf8Encode(Tail(text))
    ELSE EncodeCodePoint(u) \o Utf8Encode(Tail(text))

IsCont(b) == b >= 128 /\ b <= 191

DecodeCodePoint(cp) ==
  IF cp < 65536 THEN <<cp>>
  ELSE <<55296 + ((cp - 65536) \div 1024), 56320 + ((cp - 65536) % 1024)>>

RECURSIVE Utf8Decode(_)
Utf8Decode(bytes) ==
  IF bytes = <<>> THEN <<>>
  ELSE LET b == Head(bytes)
           n == Len(bytes)
       IN
    IF b < 128 THEN <<b>> \o Utf8Decode(Tail(bytes))
    ELSE IF b >= 194 /\ b <= 223 /\ n >= 2 /\ IsCont(bytes[2])
      THEN <<(b - 192) * 64 + (bytes[2] - 128)>>
             \o Utf8Decode(Slice(bytes, 2, n))
    ELSE IF b >= 224 /\ b <= 239 /\ n >= 3 /\ IsCont(bytes[2]) /\ IsCont(bytes[3])
            /\ (b - 224) * 4096 + (bytes[2] - 128) * 64 + (bytes[3] - 128) >= 2048
            /\ ~ IsHigh((b - 224) * 4096 + (bytes[2] - 128) * 64 + (bytes[3] - 128))
            /\ ~ IsLow((b - 224) * 4096 + (bytes[2] - 128) * 64 + (bytes[3] - 128))
      THEN <<(b - 224) * 4096 + (bytes[2] - 128) * 64 + (bytes[3] - 128)>>
             \o Utf8Decode(Slice(bytes, 3, n))
    ELSE IF b >= 240 /\ b <= 244 /\ n >= 4 /\ IsCont(bytes[2]) /\ IsCont(bytes[3])
            /\ IsCont(bytes[4])
            /\ (b - 240) * 262144 + (bytes[2] - 128) * 4096
                 + (bytes[3] - 128) * 64 + (bytes[4] - 128) >= 65536
            /\ (b - 240) * 262144 + (bytes[2] - 128) * 4096
                 + (bytes[3] - 128) * 64 + (bytes[4] - 128) <= 1114111
      THEN DecodeCodePoint((b - 240) * 262144 + (bytes[2] - 128) * 4096
                             + (bytes[3] - 128) * 64 + (bytes[4] - 128))
             \o Utf8Decode(Slice(bytes, 4, n))
    ELSE <<REPLACEMENT>> \o Utf8Decode(Tail(bytes))

RECURSIVE Base64Encode(_)
Base64Encode(bytes) ==
  IF bytes = <<>> THEN <<>>
  ELSE IF Len(bytes) = 1
    THEN <<bytes[1] \div 4, (bytes[1] % 4) * 16, BASE64_PAD, BASE64_PAD>>
  ELSE IF Len(bytes) = 2
    THEN <<bytes[1] \div 4, ((bytes[1] % 4) * 16) + (bytes[2] \div 16),
           (bytes[2] % 16) * 4, BASE64_PAD>>
  ELSE <<bytes[1] \div 4, ((bytes[1] % 4) * 16) + (bytes[2] \div 16),
         ((bytes[2] % 16) * 4) + (bytes[3] \div 64), bytes[3] % 64>>
         \o Base64Encode(Slice(bytes, 3, Len(bytes)))

RECURSIVE Base64Decode(_)
Base64Decode(b64) ==
  IF Len(b64) < 2 \/ b64[1] = BASE64_PAD \/ b64[2] = BASE64_PAD THEN <<>>
  ELSE IF Len(b64) = 2 \/ b64[3] = BASE64_PAD
    THEN <<(b64[1] * 4) + (b64[2] \div 16)>>
  ELSE IF Len(b64) = 3 \/ b64[4] = BASE64_PAD
    THEN <<(b64[1] * 4) + (b64[2] \div 16), ((b64[2] % 16) * 16) + (b64[3] \div 4)>>
  ELSE <<(b64[1] * 4) + (b64[2] \div 16), ((b64[2] % 16) * 16) + (b64[3] \div 4),
         ((b64[3] % 4) * 64) + b64[4]>>
         \o Base64Decode(Slice(b64, 4, Len(b64)))

(* ---------------------------------------------------------------------- *)
(* Configuration: ENCRYPTION_KEY                                           *)
(* ---------------------------------------------------------------------- *)
PadEnd(str, n) ==
  IF Len(str) >= n THEN str ELSE str \o [i \in 1..(n - Len(str)) |-> SPACE]

EncryptionKey(env) ==
  LET raw == IF env = <<>> THEN DEFAULT_KEY ELSE env
  IN SubSeq(PadEnd(raw, KEY_LEN), 1, KEY_LEN)

(* ---------------------------------------------------------------------- *)
(* AES-256-GCM as used through createCipheriv / createDecipheriv: a stream *)
(* cipher keyed by (key, iv) and a tag that is a polynomial hash of the    *)
(* ciphertext masked by a value derived from the IV.                       *)
(* ---------------------------------------------------------------------- *)
KeyBytes(key) == Utf8Encode(key)

CipherKeyOk(key) == Len(KeyBytes(key)) = KEY_LEN

GcmH(kb) == 1 + (SumSeq(kb) % (GCM_PRIME - 1))

GcmCrypt(kb, iv, bytes) ==
  [i \in 1..Len(bytes) |->
     Xor(bytes[i], (SumSeq(kb) + SumSeq(iv) + 7 * i) % 256)]

GcmTag(kb, iv, ct) ==
  LET t == (PolyHash(iv, 2, GCM_PRIME) + PolyHash(ct, GcmH(kb), GCM_PRIME)
              + Len(ct) + GcmH(kb)) % GCM_PRIME
  IN [j \in 1..TAG_LEN |-> (t + j) % 256]

RandomBytes == {[k \in 1..IV_LEN |-> (37 * s * k) % 256] : s \in 1..NumIvs}

NoCipher == [ok |-> FALSE, data |-> <<>>, iv |-> <<>>]
NoText == [ok |-> FALSE, text |-> <<>>]

encrypt_Plain(text, iv, key) ==
  [ok |-> TRUE, data |-> text, iv |-> Base64Encode(iv)]

encrypt(text, iv, key) ==
  IF ~ CipherKeyOk(key) THEN NoCipher
  ELSE LET encrypted == GcmCrypt(KeyBytes(key), iv, Utf8Encode(text))
           tag == GcmTag(KeyBytes(key), iv, encrypted)
       IN [ok |-> TRUE,
           data |-> Base64Encode(encrypted \o tag),
           iv |-> Base64Encode(iv)]

TagVerifies_Always(kb, iv, encrypted, tag) == TRUE

TagVerifies(kb, iv, encrypted, tag) == tag = GcmTag(kb, iv, encrypted)

decrypt_SplitAtIvLen(dataBase64, ivBase64, key) ==
  LET iv == Base64Decode(ivBase64)
      combined == Base64Decode(dataBase64)
  IN IF Len(combined) < TAG_LEN \/ iv = <<>> \/ ~ CipherKeyOk(key) THEN NoText
     ELSE LET tag == Slice(combined, Len(combined) - TAG_LEN, Len(combined))
              encrypted == Slice(combined, 0, Len(combined) - IV_LEN)
          IN IF ~ TagVerifies(KeyBytes(key), iv, encrypted, tag) THEN NoText
             ELSE [ok |-> TRUE,
                   text |-> Utf8Decode(GcmCrypt(KeyBytes(key), iv, encrypted))]

decrypt(dataBase64, ivBase64, key) ==
  LET iv == Base64Decode(ivBase64)
      combined == Base64Decode(dataBase64)
  IN IF Len(combined) < TAG_LEN \/ iv = <<>> \/ ~ CipherKeyOk(key) THEN NoText
     ELSE LET tag == Slice(combined, Len(combined) - TAG_LEN, Len(combined))
              encrypted == Slice(combined, 0, Len(combined) - TAG_LEN)
          IN IF ~ TagVerifies(KeyBytes(key), iv, encrypted, tag) THEN NoText
             ELSE [ok |-> TRUE,
                   text |-> Utf8Decode(GcmCrypt(KeyBytes(key), iv, encrypted))]

(* ---------------------------------------------------------------------- *)
(* Codec driver: process start, one encrypt call, an optional single-bit   *)
(* alteration of the stored pair, one decrypt call.                        *)
(* ---------------------------------------------------------------------- *)
CodeUnits == {104, 8364, 55357, 56832}

RECURSIVE TextsOfLen(_)
TextsOfLen(n) ==
  IF n = 0 THEN {<<>>}
  ELSE {<<u>> \o t : u \in CodeUnits, t \in TextsOfLen(n - 1)}

Plaintexts == UNION {TextsOfLen(n) : n \in 0..MaxTextLen}

EnvKeys ==
  {<<>>,
   [i \in 1..5 |-> 107],
   [i \in 1..(KEY_LEN + 8) |-> 107],
   [i \in 1..KEY_LEN |-> 233]}

FlipBit(bytes, idx, bit) == [bytes EXCEPT ![idx] = Xor(@, 2 ^ bit)]

CodecInit ==
  /\ envKey \in EnvKeys
  /\ started = FALSE
  /\ ENCRYPTION_KEY = <<>>
  /\ cstage = "idle"
  /\ plain = <<>>
  /\ enc = NoCipher
  /\ tamper = "none"
  /\ dec = NoText

Startup ==
  /\ ~ started
  /\ started' = TRUE
  /\ ENCRYPTION_KEY' = EncryptionKey(envKey)
  /\ UNCHANGED <<envKey, cstage, plain, enc, tamper, dec>>

CallEncrypt(m, iv) ==
  /\ started
  /\ cstage = "idle"
  /\ plain' = m
  /\ enc' = encrypt(m, iv, ENCRYPTION_KEY)
  /\ cstage' = "encrypted"
  /\ UNCHANGED <<envKey, started, ENCRYPTION_KEY, tamper, dec>>

AlterStored(part, idx, bit) ==
  /\ cstage = "encrypted"
  /\ enc.ok
  /\ tamper = "none"
  /\ LET combined == Base64Decode(enc.data)
         iv == Base64Decode(enc.iv)
         ctLen == Len(combined) - TAG_LEN
     IN \/ /\ part = "ciphertext"
           /\ idx <= ctLen
           /\ enc' = [enc EXCEPT !.data = Base64Encode(FlipBit(combined, idx, bit))]
        \/ /\ part = "tag"
           /\ idx <= TAG_LEN
           /\ enc' = [enc EXCEPT
                        !.data = Base64Encode(FlipBit(combined, ctLen + idx, bit))]
        \/ /\ part = "iv"
           /\ idx <= Len(iv)
           /\ enc' = [enc EXCEPT !.iv = Base64Encode(FlipBit(iv, idx, bit))]
  /\ tamper' = part
  /\ UNCHANGED <<envKey, started, ENCRYPTION_KEY, cstage, plain, dec>>

CallDecrypt ==
  /\ cstage = "encrypted"
  /\ enc.ok
  /\ dec' = decrypt(enc.data, enc.iv, ENCRYPTION_KEY)
  /\ cstage' = "decrypted"
  /\ UNCHANGED <<envKey, started, ENCRYPTION_KEY, plain, enc, tamper>>


(* ---------------------------------------------------------------------- *)
(* Chat identity derivation (client, ChatPage.makeChatId)                  *)
(* ---------------------------------------------------------------------- *)
VARIABLES
  idA, idB,        \* the two ids handed to makeChatId
  chatAB, chatBA,  \* makeChatId(idA, idB) and makeChatId(idB, idA)
  derived          \* both derivations have run

chatVars == <<idA, idB, chatAB, chatBA, derived>>

UNDERSCORE == 95
CHAT_PREFIX == <<99, 104, 97, 116, 95>>

RECURSIVE Digits(_)
Digits(n) ==
  IF n < 10 THEN <<48 + n>> ELSE Digits(n \div 10) \o <<48 + (n % 10)>>

Num(n) == [isNum |-> TRUE, n |-> n, s |-> <<>>]
Str(s) == [isNum |-> FALSE, n |-> 0, s |-> s]

String(x) == IF x.isNum THEN Digits(x.n) ELSE x.s

RECURSIVE StrLess(_, _)
StrLess(x, y) ==
  IF y = <<>> THEN FALSE
  ELSE IF x = <<>> THEN TRUE
  ELSE IF Head(x) < Head(y) THEN TRUE
  ELSE IF Head(x) > Head(y) THEN FALSE
  ELSE StrLess(Tail(x), Tail(y))

makeChatId_Unsorted(a, b) ==
  CHAT_PREFIX \o String(a) \o <<UNDERSCORE>> \o String(b)

makeChatId(a, b) ==
  LET aStr == String(a)
      bStr == String(b)
      min == IF StrLess(aStr, bStr) THEN aStr ELSE bStr
      max == IF StrLess(aStr, bStr) THEN bStr ELSE aStr
  IN CHAT_PREFIX \o min \o <<UNDERSCORE>> \o max

Ids ==
  {Num(n) : n \in 0..MaxIdNum} \cup {Str(Digits(n)) : n \in 0..MaxIdNum}
    \cup {Str(<<>>), Str(<<97>>), Str(<<49, 95, 50>>)}

ChatInit ==
  /\ idA \in Ids
  /\ idB \in Ids
  /\ chatAB = <<>>
  /\ chatBA = <<>>
  /\ derived = FALSE

DeriveChatIds ==
  /\ ~ derived
  /\ chatAB' = makeChatId(idA, idB)
  /\ chatBA' = makeChatId(idB, idA)
  /\ derived' = TRUE
  /\ UNCHANGED <<idA, idB>>

(* ---------------------------------------------------------------------- *)
(* Server: message store, POST /api/messages and the WebSocket hub         *)
(* ---------------------------------------------------------------------- *)
VARIABLES
  stalled          \* connections whose socket accepts writes but does not drain

netVars == <<stalled>>

VARIABLES
  now,             \* the clock CURRENT_TIMESTAMP reads
  hreq             \* per HTTP request to GET /api/messages, its progress

historyVars == <<now, hreq>>

VARIABLES
  readyState,      \* per connection: "NONE" (not yet connected), "OPEN", ...
  subs,            \* the Map ws -> Set of chat ids
  sent,            \* per connection, the frames the last step wrote with ws.send
  unsubscribed,    \* per connection, chats whose last processed frame was unsubscribe
  messages,        \* rows of the messages table, in insertion order
  nextMsgId,       \* next value of the messages id sequence
  req,             \* per HTTP request to POST /api/messages, its progress
  dropped          \* the last step was a 'message' handler that changed
                   \* nothing and sent nothing

hubVars ==
  <<readyState, subs, sent, unsubscribed, messages, nextMsgId, req, dropped>>

Conns == 1..NumConns
Reqs == 1..NumReqs
UserIds == 1..NumUsers

HubChatIds == {makeChatId(Num(1), Num(1 + k)) : k \in 1..NumChats}

HubContents == {<<>>, <<104, 105>>}

AuthHeaders ==
  {[bearer |-> TRUE, signed |-> TRUE, id |-> u] : u \in UserIds}
    \cup {[bearer |-> FALSE, signed |-> FALSE, id |-> 0],
          [bearer |-> TRUE, signed |-> FALSE, id |-> 1]}

SignedHeaders == {header \in AuthHeaders : header.bearer /\ header.signed}

Frames ==
  {[json |-> TRUE, type |-> t, chatId |-> c] :
     t \in {"subscribe", "unsubscribe"}, c \in HubChatIds}
    \cup {[json |-> TRUE, type |-> "subscribe", chatId |-> <<>>],
          [json |-> TRUE, type |-> "ping", chatId |-> CHAT_PREFIX],
          [json |-> FALSE, type |-> "", chatId |-> <<>>]}

NewReq ==
  [pc |-> "new", status |-> 0, user |-> 0, chatId |-> <<>>, content |-> <<>>,
   data |-> <<>>, iv |-> <<>>, rowId |-> 0]

NothingSent == [c \in Conns |-> <<>>]

Ack_AlwaysSubscribed(type, chatId) ==
  [type |-> "subscribed", chatId |-> chatId, id |-> <<>>, sender_id |-> <<>>,
   content |-> <<>>]

Ack(type, chatId) ==
  [type |-> type, chatId |-> chatId, id |-> <<>>, sender_id |-> <<>>,
   content |-> <<>>]

MessageFrame(row, content) ==
  [type |-> "message", chatId |-> row.chat_id, id |-> Digits(row.id),
   sender_id |-> Digits(row.sender_id), content |-> content]

auth_AcceptsUnverified(header) ==
  IF ~ header.bearer THEN [ok |-> FALSE, user |-> 0]
  ELSE [ok |-> TRUE, user |-> header.id]

auth(header) ==
  IF ~ header.bearer THEN [ok |-> FALSE, user |-> 0]
  ELSE IF ~ header.signed THEN [ok |-> FALSE, user |-> 0]
  ELSE [ok |-> TRUE, user |-> header.id]

Eligible_AnyOpen(ws, chatId) == readyState[ws] = "OPEN"

Eligible_IgnoreReadyState(ws, chatId) == chatId \in subs[ws]

Eligible(ws, chatId) == chatId \in subs[ws] /\ readyState[ws] = "OPEN"

broadcastToChat_StopsAtStalled(chatId, payload) ==
  [ws \in Conns |->
     IF /\ ws \in DOMAIN subs /\ Eligible(ws, chatId)
        /\ ~ \E d \in stalled : d < ws /\ d \in DOMAIN subs /\ Eligible(d, chatId)
       THEN <<payload>> ELSE <<>>]

broadcastToChat(chatId, payload) ==
  [ws \in Conns |->
     IF ws \in DOMAIN subs /\ Eligible(ws, chatId) THEN <<payload>> ELSE <<>>]

HubInit ==
  /\ readyState = [c \in Conns |-> "NONE"]
  /\ subs = <<>>
  /\ sent = NothingSent
  /\ unsubscribed = [c \in Conns |-> {}]
  /\ messages = <<>>
  /\ nextMsgId = 1
  /\ req = [r \in Reqs |-> NewReq]
  /\ dropped = FALSE

WsConnection_Presubscribed(ws) ==
  /\ readyState[ws] = "NONE"
  /\ \A c \in Conns : c < ws => readyState[c] # "NONE"
  /\ readyState' = [readyState EXCEPT ![ws] = "OPEN"]
  /\ subs' = [c \in DOMAIN subs \cup {ws} |-> IF c = ws THEN HubChatIds ELSE subs[c]]
  /\ sent' = NothingSent
  /\ dropped' = FALSE
  /\ UNCHANGED <<unsubscribed, messages, nextMsgId, req>>

WsConnection(ws) ==
  /\ readyState[ws] = "NONE"
  /\ \A c \in Conns : c < ws => readyState[c] # "NONE"
  /\ readyState' = [readyState EXCEPT ![ws] = "OPEN"]
  /\ subs' = [c \in DOMAIN subs \cup {ws} |-> IF c = ws THEN {} ELSE subs[c]]
  /\ sent' = NothingSent
  /\ dropped' = FALSE
  /\ UNCHANGED <<unsubscribed, messages, nextMsgId, req>>

Subscribes_NoChatIdCheck(msg) == msg.json /\ msg.type = "subscribe"

Subscribes(msg) == msg.json /\ msg.type = "subscribe" /\ msg.chatId # <<>>

Unsubscribes(msg) == msg.json /\ msg.type = "unsubscribe" /\ msg.chatId # <<>>

SubsAfterFrame_KeepOnUnsubscribe(set, msg) ==
  IF Subscribes(msg) THEN set \cup {msg.chatId} ELSE set

SubsAfterFrame(set, msg) ==
  IF Subscribes(msg) THEN set \cup {msg.chatId}
  ELSE IF Unsubscribes(msg) THEN set \ {msg.chatId}
  ELSE set

WsMessage(ws, msg) ==
  /\ readyState[ws] = "OPEN"
  /\ subs' = [subs EXCEPT ![ws] = SubsAfterFrame(@, msg)]
  /\ sent' =
       IF Subscribes(msg)
         THEN [NothingSent EXCEPT ![ws] = <<Ack("subscribed", msg.chatId)>>]
       ELSE IF Unsubscribes(msg)
         THEN [NothingSent EXCEPT ![ws] = <<Ack("unsubscribed", msg.chatId)>>]
       ELSE NothingSent
  /\ unsubscribed' =
       IF Subscribes(msg) THEN [unsubscribed EXCEPT ![ws] = @ \ {msg.chatId}]
       ELSE IF Unsubscribes(msg) THEN [unsubscribed EXCEPT ![ws] = @ \cup {msg.chatId}]
       ELSE unsubscribed
  /\ dropped' = (~ Subscribes(msg) /\ ~ Unsubscribes(msg))
  /\ UNCHANGED <<readyState, messages, nextMsgId, req>>

WsClosing(ws) ==
  /\ readyState[ws] = "OPEN"
  /\ readyState' = [readyState EXCEPT ![ws] = "CLOSING"]
  /\ sent' = NothingSent
  /\ dropped' = FALSE
  /\ UNCHANGED <<subs, unsubscribed, messages, nextMsgId, req>>

WsClose(ws) ==
  /\ readyState[ws] = "CLOSING"
  /\ readyState' = [readyState EXCEPT ![ws] = "CLOSED"]
  /\ subs' = [c \in DOMAIN subs \ {ws} |-> subs[c]]
  /\ sent' = NothingSent
  /\ unsubscribed' = [unsubscribed EXCEPT ![ws] = {}]
  /\ dropped' = FALSE
  /\ UNCHANGED <<messages, nextMsgId, req>>

FrameAfterClose_Recreates(map, ws, msg) ==
  [c \in DOMAIN map \cup {ws} |->
     IF c = ws THEN SubsAfterFrame({}, msg) ELSE map[c]]

\* subs.get(ws) is undefined once 'close' deleted the entry: .add / .delete
\* throw a TypeError, which the handler's catch swallows.
FrameAfterClose(map, ws, msg) ==
  IF ws \in DOMAIN map THEN [map EXCEPT ![ws] = SubsAfterFrame(@, msg)]
  ELSE map

\* A 'message' handler that still runs for a connection whose 'close' was
\* handled; ws.send is not reached (or writes nothing on a closed socket).
WsMessageAfterClose(ws, msg) ==
  /\ readyState[ws] = "CLOSED"
  /\ subs' = FrameAfterClose(subs, ws, msg)
  /\ sent' = NothingSent
  /\ dropped' = TRUE
  /\ UNCHANGED <<readyState, unsubscribed, messages, nextMsgId, req>>

PostMessages(r, header, chatId, content, iv) ==
  /\ req[r].pc = "new"
  /\ \A q \in DOMAIN req : q < r => req[q].pc # "new"
  /\ LET a == auth(header)
         e == encrypt(content, iv, ENCRYPTION_KEY)
     IN req' = [req EXCEPT ![r] =
          IF ~ a.ok THEN [@ EXCEPT !.pc = "done", !.status = 401]
          ELSE IF chatId = <<>> \/ content = <<>>
            THEN [@ EXCEPT !.pc = "done", !.status = 400]
          ELSE IF ~ e.ok
            THEN [@ EXCEPT !.pc = "done", !.status = 500]
          ELSE [@ EXCEPT !.pc = "query", !.user = a.user, !.chatId = chatId,
                         !.content = content, !.data = e.data, !.iv = e.iv]]
  /\ sent' = NothingSent
  /\ dropped' = FALSE
  /\ UNCHANGED <<readyState, subs, unsubscribed, messages, nextMsgId>>

DbInsertMessage_NoIncrement(r) ==
  /\ req[r].pc = "query"
  /\ messages' = Append(messages,
       [id |-> nextMsgId, chat_id |-> req[r].chatId, sender_id |-> req[r].user,
        content |-> req[r].data, iv |-> req[r].iv, created_at |-> now])
  /\ nextMsgId' = nextMsgId
  /\ req' = [req EXCEPT ![r] = [@ EXCEPT !.pc = "resolved", !.rowId = nextMsgId]]
  /\ sent' = NothingSent
  /\ dropped' = FALSE
  /\ UNCHANGED <<readyState, subs, unsubscribed>>

DbInsertMessage(r) ==
  /\ req[r].pc = "query"
  /\ messages' = Append(messages,
       [id |-> nextMsgId, chat_id |-> req[r].chatId, sender_id |-> req[r].user,
        content |-> req[r].data, iv |-> req[r].iv, created_at |-> now])
  /\ nextMsgId' = nextMsgId + 1
  /\ req' = [req EXCEPT ![r] = [@ EXCEPT !.pc = "resolved", !.rowId = nextMsgId]]
  /\ sent' = NothingSent
  /\ dropped' = FALSE
  /\ UNCHANGED <<readyState, subs, unsubscribed>>

DbInsertFails(r) ==
  /\ req[r].pc = "query"
  /\ req' = [req EXCEPT ![r] = [@ EXCEPT !.pc = "rejected"]]
  /\ sent' = NothingSent
  /\ dropped' = FALSE
  /\ UNCHANGED <<readyState, subs, unsubscribed, messages, nextMsgId>>

RowById(id) == CHOOSE row \in {messages[i] : i \in 1..Len(messages)} : row.id = id

PostMessagesResume_BroadcastOnFailure(r) ==
  /\ req[r].pc \in {"resolved", "rejected"}
  /\ IF req[r].pc = "resolved"
       THEN /\ sent' = broadcastToChat(req[r].chatId,
                         MessageFrame(RowById(req[r].rowId), req[r].content))
            /\ req' = [req EXCEPT ![r] =
                 [@ EXCEPT !.pc = "done", !.status = 200, !.data = <<>>,
                           !.iv = <<>>]]
       ELSE /\ sent' = broadcastToChat(req[r].chatId,
                         MessageFrame([id |-> nextMsgId, chat_id |-> req[r].chatId,
                                       sender_id |-> req[r].user], req[r].content))
            /\ req' = [req EXCEPT ![r] = [NewReq EXCEPT !.pc = "done", !.status = 500]]
  /\ dropped' = FALSE
  /\ UNCHANGED <<readyState, subs, unsubscribed, messages, nextMsgId>>

PostMessagesResume(r) ==
  /\ req[r].pc \in {"resolved", "rejected"}
  /\ IF req[r].pc = "resolved"
       THEN /\ sent' = broadcastToChat(req[r].chatId,
                         MessageFrame(RowById(req[r].rowId), req[r].content))
            /\ req' = [req EXCEPT ![r] =
                 [@ EXCEPT !.pc = "done", !.status = 200, !.data = <<>>,
                           !.iv = <<>>]]
       ELSE /\ sent' = NothingSent
            /\ req' = [req EXCEPT ![r] = [NewReq EXCEPT !.pc = "done", !.status = 500]]
  /\ dropped' = FALSE
  /\ UNCHANGED <<readyState, subs, unsubscribed, messages, nextMsgId>>

\* The peer of an open connection stops reading (or its link breaks): ws.send
\* keeps returning at once and the frames queue in the socket's buffer.
SocketStalls(ws) ==
  /\ readyState[ws] = "OPEN"
  /\ ws \notin stalled
  /\ stalled' = stalled \cup {ws}

NetIdle == stalled = {}

HubIdle ==
  /\ readyState = [c \in Conns |-> "NONE"] /\ subs = <<>>
  /\ sent = NothingSent /\ unsubscribed = [c \in Conns |-> {}]
  /\ messages = <<>> /\ nextMsgId = 1
  /\ req = [r \in Reqs |-> NewReq]
  /\ dropped = FALSE

(* ---------------------------------------------------------------------- *)
(* Server: GET /api/messages (history) and the clock behind created_at     *)
(* ---------------------------------------------------------------------- *)
Appends == 1..NumAppends
HistReqs == 1..NumHistReqs

NewHReq ==
  [pc |-> "new", status |-> 0, chatId |-> <<>>, messages |-> <<>>]

ClockTick ==
  /\ now < MaxClock
  /\ now' = now + 1
  /\ UNCHANGED hreq

ChatRows_NoFilter(rows, chatId) == rows

ChatRows(rows, chatId) == SelectSeq(rows, LAMBDA row : row.chat_id = chatId)

RECURSIVE Orderings(_)
Orderings(S) ==
  IF S = {} THEN {<<>>}
  ELSE UNION {{<<x>> \o rest : rest \in Orderings(S \ {x})} : x \in S}

OrderedBy(seq) ==
  \A i \in 1..Len(seq), j \in 1..Len(seq) :
    i < j => seq[i].created_at <= seq[j].created_at

SelectMessages(rows, chatId) ==
  LET hits == ChatRows(rows, chatId)
  IN {seq \in Orderings({hits[i] : i \in 1..Len(hits)}) : OrderedBy(seq)}

Decrypted(row) == decrypt(row.content, row.iv, ENCRYPTION_KEY)

MapRow(row) ==
  [id |-> Digits(row.id), chat_id |-> row.chat_id,
   sender_id |-> Digits(row.sender_id), content |-> Decrypted(row).text,
   created_at |-> row.created_at]

HistoryAnswer(rows) ==
  IF \E i \in 1..Len(rows) : ~ Decrypted(rows[i]).ok
    THEN [status |-> 500, messages |-> <<>>]
    ELSE [status |-> 200, messages |-> [i \in 1..Len(rows) |-> MapRow(rows[i])]]

HistoryInit ==
  /\ now = 1
  /\ hreq = [r \in HistReqs |-> NewHReq]

GetMessages(r, header, chatId) ==
  /\ hreq[r].pc = "new"
  /\ \A q \in DOMAIN hreq : q < r => hreq[q].pc # "new"
  /\ hreq' = [hreq EXCEPT ![r] =
       IF ~ auth(header).ok THEN [@ EXCEPT !.pc = "done", !.status = 401]
       ELSE IF chatId = <<>> THEN [@ EXCEPT !.pc = "done", !.status = 400]
       ELSE [@ EXCEPT !.pc = "query", !.chatId = chatId]]
  /\ UNCHANGED now

DbSelectMessages(r) ==
  /\ hreq[r].pc = "query"
  /\ \E rows \in SelectMessages(messages, hreq[r].chatId) :
       LET a == HistoryAnswer(rows)
       IN hreq' = [hreq EXCEPT ![r] =
            [@ EXCEPT !.pc = "done", !.status = a.status, !.messages = a.messages]]
  /\ UNCHANGED now

DbSelectMessagesFails(r) ==
  /\ hreq[r].pc = "query"
  /\ hreq' = [hreq EXCEPT ![r] = [@ EXCEPT !.pc = "done", !.status = 500]]
  /\ UNCHANGED now

DbRowAltered(i) ==
  /\ i \in 1..Len(messages)
  /\ Decrypted(messages[i]).ok
  /\ messages' = [messages EXCEPT ![i].content =
                    Base64Encode(FlipBit(Base64Decode(@), 1, 0))]
  /\ sent' = NothingSent
  /\ dropped' = FALSE
  /\ UNCHANGED <<readyState, subs, unsubscribed, nextMsgId, req>>

StoreInit ==
  /\ readyState = [c \in Conns |-> "NONE"]
  /\ subs = <<>>
  /\ sent = NothingSent
  /\ unsubscribed = [c \in Conns |-> {}]
  /\ messages = <<>>
  /\ nextMsgId = 1
  /\ req = [r \in Appends |-> NewReq]
  /\ dropped = FALSE

HistoryIdle ==
  /\ now = 1
  /\ hreq = [r \in HistReqs |-> NewHReq]

(* ---------------------------------------------------------------------- *)
(* Server: friendship store and POST /api/friends/add, on the Postgres     *)
(* backend (server/index.js) and on the MongoDB backend                    *)
(* ---------------------------------------------------------------------- *)
VARIABLES
  backend,         \* "postgres" or "mongo": which server variant is running
  friends,         \* rows of the friends table / Friend collection
  freq             \* per HTTP request to POST /api/friends/add, its progress

friendVars == <<backend, friends, freq>>

FReqs == 1..NumFriendReqs

users == [u \in UserIds |-> [id |-> u, username |-> <<117, 48 + u>>]]

Identifiers == {users[u].username : u \in UserIds} \cup {<<>>, <<120>>}

NewFReq == [pc |-> "new", status |-> 0, user |-> 0, friend |-> 0]

FindUser(ident) ==
  IF \E u \in UserIds : users[u].username = ident
    THEN (CHOOSE u \in UserIds : users[u].username = ident)
    ELSE 0

HasEdge(rows, user, friend) ==
  \E i \in 1..Len(rows) : rows[i].user_id = user /\ rows[i].friend_id = friend

Upsert(rows, user, friend) ==
  IF HasEdge(rows, user, friend) THEN rows
  ELSE Append(rows, [user_id |-> user, friend_id |-> friend])

FriendSaveRejects(rows, user, friend) == HasEdge(rows, user, friend)

AlreadyFriends(rows, user, friend) == HasEdge(rows, user, friend)

FriendsInit ==
  /\ backend \in {"postgres", "mongo"}
  /\ friends = <<>>
  /\ freq = [r \in FReqs |-> NewFReq]

FriendsAdd(r, header, ident) ==
  /\ freq[r].pc = "new"
  /\ \A q \in FReqs : q < r => freq[q].pc # "new"
  /\ LET a == auth(header)
         friend == FindUser(ident)
     IN freq' = [freq EXCEPT ![r] =
          IF ~ a.ok THEN [@ EXCEPT !.pc = "done", !.status = 401]
          ELSE IF ident = <<>> THEN [@ EXCEPT !.pc = "done", !.status = 400]
          ELSE [@ EXCEPT !.pc = "lookup", !.user = a.user, !.friend = friend]]
  /\ UNCHANGED <<backend, friends>>

FriendsLookupDone_NoSelfCheck(r) ==
  /\ freq[r].pc = "lookup"
  /\ freq' = [freq EXCEPT ![r] =
       IF @.friend = 0 THEN [@ EXCEPT !.pc = "done", !.status = 404]
       ELSE IF backend = "mongo" THEN [@ EXCEPT !.pc = "check"]
       ELSE [@ EXCEPT !.pc = "insert1"]]
  /\ UNCHANGED <<backend, friends>>

FriendsLookupDone(r) ==
  /\ freq[r].pc = "lookup"
  /\ freq' = [freq EXCEPT ![r] =
       IF @.friend = 0 THEN [@ EXCEPT !.pc = "done", !.status = 404]
       ELSE IF Digits(@.friend) = Digits(@.user)
         THEN [@ EXCEPT !.pc = "done", !.status = 400]
       ELSE IF backend = "mongo" THEN [@ EXCEPT !.pc = "check"]
       ELSE [@ EXCEPT !.pc = "insert1"]]
  /\ UNCHANGED <<backend, friends>>

FriendsCheckExisting(r) ==
  /\ freq[r].pc = "check"
  /\ freq' = [freq EXCEPT ![r] =
       IF AlreadyFriends(friends, @.user, @.friend)
         THEN [@ EXCEPT !.pc = "done", !.status = 400]
         ELSE [@ EXCEPT !.pc = "insert1"]]
  /\ UNCHANGED <<backend, friends>>

FriendsInsert(r) ==
  /\ freq[r].pc \in {"insert1", "insert2"}
  /\ LET user == IF freq[r].pc = "insert1" THEN freq[r].user ELSE freq[r].friend
         friend == IF freq[r].pc = "insert1" THEN freq[r].friend ELSE freq[r].user
     IN IF backend = "mongo" /\ FriendSaveRejects(friends, user, friend)
          THEN /\ friends' = friends
               /\ freq' = [freq EXCEPT ![r] = [@ EXCEPT !.pc = "done", !.status = 500]]
          ELSE /\ friends' = IF backend = "mongo"
                               THEN Append(friends, [user_id |-> user, friend_id |-> friend])
                               ELSE Upsert(friends, user, friend)
               /\ freq' = [freq EXCEPT ![r] =
                    IF @.pc = "insert1" THEN [@ EXCEPT !.pc = "insert2"]
                    ELSE [@ EXCEPT !.pc = "done", !.status = 200]]
  /\ UNCHANGED backend

FriendsQueryFails(r) ==
  /\ freq[r].pc \in {"lookup", "check", "insert1", "insert2"}
  /\ freq' = [freq EXCEPT ![r] = [@ EXCEPT !.pc = "done", !.status = 500]]
  /\ UNCHANGED <<backend, friends>>

FriendsIdle ==
  /\ backend = "postgres" /\ friends = <<>>
  /\ freq = [r \in FReqs |-> NewFReq]

(* ---------------------------------------------------------------------- *)
(* Server: users table, POST /api/register and POST /api/login             *)
(* ---------------------------------------------------------------------- *)
VARIABLES
  userRows,        \* rows of the users table, in insertion order
  nextUserId,      \* next value of the users id sequence
  rreq,            \* per HTTP request to POST /api/register, its progress
  lreq             \* per HTTP request to POST /api/login, its progress

accountVars == <<userRows, nextUserId, rreq, lreq>>

RegReqs == 1..NumRegReqs
LoginReqs == 1..NumLoginReqs

Usernames == {<<97>>, <<98>>}

Emails == {<<>>, <<101>>}

Passwords == {<<>>, <<112>>, <<113>>}

BcryptSalts == {7}

BCRYPT_ROUNDS == 10

BcryptHash(password, salt) ==
  <<BCRYPT_ROUNDS, salt, PolyHash(password \o <<salt>>, BCRYPT_ROUNDS + salt, GCM_PRIME)>>

BcryptCompare(password, hash) == BcryptHash(password, hash[2]) = hash

NoBody == ""

NewRReq ==
  [pc |-> "new", status |-> 0, error |-> NoBody, username |-> <<>>,
   email |-> <<>>, password_hash |-> <<>>, user |-> 0]

NewLReq ==
  [pc |-> "new", status |-> 0, error |-> NoBody, identifier |-> <<>>,
   password |-> <<>>, user |-> 0, outcome |-> ""]

UniqueViolation(rows, username, email) ==
  \E i \in 1..Len(rows) :
    \/ rows[i].username = username
    \/ email # <<>> /\ rows[i].email = email

SelectUser(rows, ident) ==
  {i \in 1..Len(rows) : rows[i].username = ident \/ rows[i].email = ident}

AccountsInit ==
  /\ userRows = <<>>
  /\ nextUserId = 1
  /\ rreq = [r \in RegReqs |-> NewRReq]
  /\ lreq = [r \in LoginReqs |-> NewLReq]

Register(r, username, email, password, salt) ==
  /\ rreq[r].pc = "new"
  /\ \A q \in RegReqs : q < r => rreq[q].pc # "new"
  /\ rreq' = [rreq EXCEPT ![r] =
       IF username = <<>> \/ password = <<>>
         THEN [@ EXCEPT !.pc = "done", !.status = 400,
                        !.error = "username and password required"]
         ELSE [@ EXCEPT !.pc = "insert", !.username = username, !.email = email,
                        !.password_hash = BcryptHash(password, salt)]]
  /\ UNCHANGED <<userRows, nextUserId, lreq>>

DbInsertUser_NoUniqueCheck(r) ==
  /\ rreq[r].pc = "insert"
  /\ userRows' = Append(userRows,
       [id |-> nextUserId, username |-> rreq[r].username,
        email |-> rreq[r].email, password_hash |-> rreq[r].password_hash])
  /\ nextUserId' = nextUserId + 1
  /\ rreq' = [rreq EXCEPT ![r] =
       [NewRReq EXCEPT !.pc = "done", !.status = 200, !.user = nextUserId,
                       !.username = rreq[r].username, !.email = rreq[r].email]]
  /\ UNCHANGED lreq

DbInsertUser(r) ==
  /\ rreq[r].pc = "insert"
  /\ IF UniqueViolation(userRows, rreq[r].username, rreq[r].email)
       THEN /\ rreq' = [rreq EXCEPT ![r] =
                 [NewRReq EXCEPT !.pc = "done", !.status = 400,
                                 !.error = "Username or email already exists",
                                 !.username = rreq[r].username,
                                 !.email = rreq[r].email]]
            /\ UNCHANGED <<userRows, nextUserId>>
       ELSE /\ userRows' = Append(userRows,
                 [id |-> nextUserId, username |-> rreq[r].username,
                  email |-> rreq[r].email, password_hash |-> rreq[r].password_hash])
            /\ nextUserId' = nextUserId + 1
            /\ rreq' = [rreq EXCEPT ![r] =
                 [NewRReq EXCEPT !.pc = "done", !.status = 200, !.user = nextUserId,
                                 !.username = rreq[r].username,
                                 !.email = rreq[r].email]]
  /\ UNCHANGED lreq

DbInsertUserFails(r) ==
  /\ rreq[r].pc = "insert"
  /\ rreq' = [rreq EXCEPT ![r] =
       [NewRReq EXCEPT !.pc = "done", !.status = 500,
                       !.error = "Internal server error"]]
  /\ UNCHANGED <<userRows, nextUserId, lreq>>

Login(r, identifier, password) ==
  /\ lreq[r].pc = "new"
  /\ \A q \in LoginReqs : q < r => lreq[q].pc # "new"
  /\ lreq' = [lreq EXCEPT ![r] =
       IF identifier = <<>> \/ password = <<>>
         THEN [@ EXCEPT !.pc = "done", !.status = 400,
                        !.error = "username/email and password required"]
         ELSE [@ EXCEPT !.pc = "select", !.identifier = identifier,
                        !.password = password]]
  /\ UNCHANGED <<userRows, nextUserId, rreq>>

LoginAnswer_RevealsUnknownUser(found, ok, id) ==
  IF ~ found THEN [status |-> 404, error |-> "User not found", user |-> 0]
  ELSE IF ~ ok THEN [status |-> 400, error |-> "Invalid credentials", user |-> 0]
  ELSE [status |-> 200, error |-> NoBody, user |-> id]

LoginAnswer(found, ok, id) ==
  IF ~ found THEN [status |-> 400, error |-> "Invalid credentials", user |-> 0]
  ELSE IF ~ ok THEN [status |-> 400, error |-> "Invalid credentials", user |-> 0]
  ELSE [status |-> 200, error |-> NoBody, user |-> id]

DbSelectUser(r) ==
  /\ lreq[r].pc = "select"
  /\ LET hits == SelectUser(userRows, lreq[r].identifier)
     IN IF hits = {}
          THEN lreq' = [lreq EXCEPT ![r] =
                 LET a == LoginAnswer(FALSE, FALSE, 0)
                 IN [NewLReq EXCEPT !.pc = "done", !.status = a.status,
                                    !.error = a.error, !.user = a.user,
                                    !.outcome = "nouser"]]
          ELSE \E i \in hits :
                 LET ok == BcryptCompare(lreq[r].password, userRows[i].password_hash)
                     a == LoginAnswer(TRUE, ok, userRows[i].id)
                 IN lreq' = [lreq EXCEPT ![r] =
                      [NewLReq EXCEPT !.pc = "done", !.status = a.status,
                                      !.error = a.error, !.user = a.user,
                                      !.outcome =
                                         IF ok THEN "ok" ELSE "badpass"]]
  /\ UNCHANGED <<userRows, nextUserId, rreq>>

DbSelectUserFails(r) ==
  /\ lreq[r].pc = "select"
  /\ lreq' = [lreq EXCEPT ![r] =
       [NewLReq EXCEPT !.pc = "done", !.status = 500,
                       !.error = "Internal server error"]]
  /\ UNCHANGED <<userRows, nextUserId, rreq>>

AccountsIdle ==
  /\ userRows = <<>> /\ nextUserId = 1
  /\ rreq = [r \in RegReqs |-> NewRReq]
  /\ lreq = [r \in LoginReqs |-> NewLReq]

(* ---------------------------------------------------------------------- *)
(* Server: GET /api/friends                                                *)
(* ---------------------------------------------------------------------- *)
VARIABLES
  greq             \* per HTTP request to GET /api/friends, its progress

listVars == <<greq>>



ListReqs == 1..NumListReqs

NewGReq == [pc |-> "new", status |-> 0, user |-> 0, friends |-> <<>>]

FriendsOf(rows, user) ==
  LET hits == SelectSeq(rows, LAMBDA row :
                row.user_id = user /\ row.friend_id \in DOMAIN users)
  IN [i \in 1..Len(hits) |->
        [id |-> Digits(hits[i].friend_id), username |-> users[hits[i].friend_id].username]]

GetFriends(r, header) ==
  /\ greq[r].pc = "new"
  /\ \A q \in ListReqs : q < r => greq[q].pc # "new"
  /\ greq' = [greq EXCEPT ![r] =
       IF ~ auth(header).ok THEN [@ EXCEPT !.pc = "done", !.status = 401]
       ELSE [@ EXCEPT !.pc = "query", !.user = auth(header).user]]

DbSelectFriends(r) ==
  /\ greq[r].pc = "query"
  /\ greq' = [greq EXCEPT ![r] =
       [@ EXCEPT !.pc = "done", !.status = 200,
                 !.friends = FriendsOf(friends, greq[r].user)]]

DbSelectFriendsFails(r) ==
  /\ greq[r].pc = "query"
  /\ greq' = [greq EXCEPT ![r] = [@ EXCEPT !.pc = "done", !.status = 500]]

ListIdle == greq = [r \in ListReqs |-> NewGReq]

(* ---------------------------------------------------------------------- *)
(* Client: ChatPage (chat switch, history fetch, live feed)                *)
(* ---------------------------------------------------------------------- *)
VARIABLES
  cws,             \* readyState of wsRef.current: "NONE", "CONNECTING", "OPEN"
  currentChatId,   \* currentChatIdRef.current, <<>> for null
  cMessages,       \* the ids of the 'messages' state, in display order
  fetch,           \* per call of fetchMessagesFor, its chat id and progress:
                   \* "idle", "sent", "waiting", "applied"
  timer,           \* the pending setTimeout(subscribeToChat, 100) calls, each
                   \* with the previousChatId and chatId its closure holds
  toServer,        \* frames the client sent that the server has not handled yet
  toClient,        \* frames the server sent that onmessage has not handled yet
  seen             \* what onmessage has done with 'message' events so far:
                   \* "added", "duplicate" (id already listed), "foreign"
                   \* (chat_id is not the selected chat)

clientVars ==
  <<cws, currentChatId, cMessages, fetch, timer, toServer, toClient, seen>>

ClientWs == 1

CurrentUser == 1

Contacts == {u \in UserIds : u # CurrentUser}

ClientHeader == [bearer |-> TRUE, signed |-> TRUE, id |-> CurrentUser]

NoTimer == {}

NoFetch == [st |-> "idle", chatId |-> <<>>]

Frame(type, chatId) == [json |-> TRUE, type |-> type, chatId |-> chatId]

\* 'others' are the timeouts of other effect runs that are still pending.
subscribeToChat(others, previousChatId, chatId) ==
  IF cws = "OPEN"
    THEN /\ toServer' = toServer \o
              (IF previousChatId # <<>> /\ previousChatId # chatId
                 THEN <<Frame("unsubscribe", previousChatId)>> ELSE <<>>)
              \o <<Frame("subscribe", chatId)>>
         /\ timer' = others
    ELSE /\ toServer' = toServer
         /\ timer' = others \cup
              {[previousChatId |-> previousChatId, chatId |-> chatId]}

\* The next call of fetchMessagesFor uses the first request not yet issued.
fetchMessagesFor(chatId) ==
  LET free == {r \in DOMAIN fetch : fetch[r].st = "idle"}
  IN IF free = {} THEN fetch
     ELSE [fetch EXCEPT ![CHOOSE r \in free : \A q \in free : r <= q] =
             [st |-> "sent", chatId |-> chatId]]

ClientInit ==
  /\ cws = "NONE"
  /\ currentChatId = <<>>
  /\ cMessages = <<>>
  /\ fetch = [r \in DOMAIN hreq |-> NoFetch]
  /\ timer = NoTimer
  /\ toServer = <<>>
  /\ toClient = <<>>
  /\ seen = {}

ClientConnect ==
  /\ cws = "NONE"
  /\ cws' = "CONNECTING"
  /\ UNCHANGED <<currentChatId, cMessages, fetch, timer, toServer, toClient, seen>>

ClientOnOpen ==
  /\ cws = "CONNECTING"
  /\ readyState[ClientWs] = "OPEN"
  /\ cws' = "OPEN"
  /\ toServer' = IF currentChatId # <<>>
                   THEN Append(toServer, Frame("subscribe", currentChatId))
                   ELSE toServer
  /\ UNCHANGED <<currentChatId, cMessages, fetch, timer, toClient, seen>>

ClientSelectContact(contact) ==
  /\ LET chatId == makeChatId(Num(CurrentUser), Num(contact))
     IN /\ chatId # currentChatId
        /\ cMessages' = <<>>
        /\ currentChatId' = chatId
        /\ fetch' = fetchMessagesFor(chatId)
        /\ subscribeToChat(timer, currentChatId, chatId)
  /\ UNCHANGED <<cws, toClient, seen>>

ClientTimeout(t) ==
  /\ t \in timer
  /\ subscribeToChat(timer \ {t}, t.previousChatId, t.chatId)
  /\ UNCHANGED <<cws, currentChatId, cMessages, fetch, toClient, seen>>

ClientFetchArrives(r) ==
  /\ fetch[r].st = "sent"
  /\ fetch' = [fetch EXCEPT ![r].st = "waiting"]
  /\ UNCHANGED <<cws, currentChatId, cMessages, timer, toServer, toClient, seen>>

ClientApplyHistory(r) ==
  /\ fetch[r].st = "waiting"
  /\ hreq[r].pc = "done"
  /\ fetch' = [fetch EXCEPT ![r].st = "applied"]
  /\ cMessages' = IF hreq[r].status = 200
                    THEN [i \in 1..Len(hreq[r].messages) |-> hreq[r].messages[i].id]
                    ELSE cMessages
  /\ UNCHANGED <<cws, currentChatId, timer, toServer, toClient, seen>>

Listed(list, id) == \E i \in 1..Len(list) : list[i] = id

Outcome(payload) ==
  IF payload.type # "message" THEN {}
  ELSE IF payload.chatId # currentChatId THEN {"foreign"}
  ELSE IF Listed(cMessages, payload.id) THEN {"duplicate"}
  ELSE {"added"}

ClientOnMessage_NoDedupe ==
  /\ toClient # <<>>
  /\ toClient' = Tail(toClient)
  /\ LET payload == Head(toClient)
     IN /\ cMessages' =
             IF /\ payload.type = "message"
                /\ payload.chatId = currentChatId
               THEN Append(cMessages, payload.id)
               ELSE cMessages
        /\ seen' = seen \cup Outcome(payload)
  /\ UNCHANGED <<cws, currentChatId, fetch, timer, toServer>>

ClientOnMessage ==
  /\ toClient # <<>>
  /\ toClient' = Tail(toClient)
  /\ LET payload == Head(toClient)
     IN /\ cMessages' =
             IF /\ payload.type = "message"
                /\ payload.chatId = currentChatId
                /\ ~ Listed(cMessages, payload.id)
               THEN Append(cMessages, payload.id)
               ELSE cMessages
        /\ seen' = seen \cup Outcome(payload)
  /\ UNCHANGED <<cws, currentChatId, fetch, timer, toServer>>

ClientSends == toServer' = Tail(toServer)

ClientReceives == toClient' = toClient \o sent'[ClientWs]

ClientIdle ==
  /\ cws = "NONE" /\ currentChatId = <<>> /\ cMessages = <<>>
  /\ fetch = [r \in HistReqs |-> NoFetch] /\ timer = NoTimer
  /\ toServer = <<>> /\ toClient = <<>> /\ seen = {}

ChatIdle ==
  /\ idA = Num(0) /\ idB = Num(0)
  /\ chatAB = <<>> /\ chatBA = <<>> /\ derived = FALSE

CodecIdle ==
  /\ envKey = <<>> /\ started = TRUE /\ ENCRYPTION_KEY = EncryptionKey(<<>>)
  /\ cstage = "idle" /\ plain = <<>> /\ enc = NoCipher /\ tamper = "none"
  /\ dec = NoText

vars ==
  <<codecVars, chatVars, hubVars, friendVars, accountVars, historyVars, listVars, clientVars, netVars>>

CodecNext ==
  \/ Startup /\ UNCHANGED <<chatVars, hubVars, friendVars, accountVars, historyVars, listVars, clientVars, netVars>>
  \/ \E m \in Plaintexts, iv \in RandomBytes :
       CallEncrypt(m, iv) /\ UNCHANGED <<chatVars, hubVars, friendVars, accountVars, historyVars, listVars, clientVars, netVars>>
  \/ \E part \in {"ciphertext", "tag", "iv"}, idx \in 1..TAG_LEN, bit \in 0..7 :
       AlterStored(part, idx, bit) /\ UNCHANGED <<chatVars, hubVars, friendVars, accountVars, historyVars, listVars, clientVars, netVars>>
  \/ CallDecrypt /\ UNCHANGED <<chatVars, hubVars, friendVars, accountVars, historyVars, listVars, clientVars, netVars>>

ChatNext == DeriveChatIds /\ UNCHANGED <<codecVars, hubVars, friendVars, accountVars, historyVars, listVars, clientVars, netVars>>

Next ==
  \/ \E ws \in Conns :
       WsConnection(ws) /\ UNCHANGED <<codecVars, chatVars, friendVars, accountVars, historyVars, listVars, clientVars, netVars>>
  \/ \E ws \in Conns, msg \in Frames :
       WsMessage(ws, msg) /\ UNCHANGED <<codecVars, chatVars, friendVars, accountVars, historyVars, listVars, clientVars, netVars>>
  \/ \E ws \in Conns :
       WsClosing(ws) /\ UNCHANGED <<codecVars, chatVars, friendVars, accountVars, historyVars, listVars, clientVars, netVars>>
  \/ \E ws \in Conns :
       WsClose(ws) /\ UNCHANGED <<codecVars, chatVars, friendVars, accountVars, historyVars, listVars, clientVars, netVars>>
  \/ \E ws \in Conns, msg \in Frames :
       WsMessageAfterClose(ws, msg) /\ UNCHANGED <<codecVars, chatVars, friendVars, accountVars, historyVars, listVars, clientVars, netVars>>
  \/ \E r \in Reqs, header \in AuthHeaders, chatId \in HubChatIds \cup {<<>>},
        content \in HubContents, iv \in RandomBytes :
       PostMessages(r, header, chatId, content, iv)
         /\ UNCHANGED <<codecVars, chatVars, friendVars, accountVars, historyVars, listVars, clientVars, netVars>>
  \/ \E r \in Reqs :
       DbInsertMessage(r) /\ UNCHANGED <<codecVars, chatVars, friendVars, accountVars, historyVars, listVars, clientVars, netVars>>
  \/ \E r \in Reqs :
       DbInsertFails(r) /\ UNCHANGED <<codecVars, chatVars, friendVars, accountVars, historyVars, listVars, clientVars, netVars>>
  \/ \E r \in Reqs :
       PostMessagesResume(r) /\ UNCHANGED <<codecVars, chatVars, friendVars, accountVars, historyVars, listVars, clientVars, netVars>>

FriendsNext ==
  \/ \E r \in FReqs, header \in AuthHeaders, ident \in Identifiers :
       FriendsAdd(r, header, ident) /\ UNCHANGED <<codecVars, chatVars, hubVars, accountVars, historyVars, listVars, clientVars, netVars>>
  \/ \E r \in FReqs :
       FriendsLookupDone(r) /\ UNCHANGED <<codecVars, chatVars, hubVars, accountVars, historyVars, listVars, clientVars, netVars>>
  \/ \E r \in FReqs :
       FriendsCheckExisting(r) /\ UNCHANGED <<codecVars, chatVars, hubVars, accountVars, historyVars, listVars, clientVars, netVars>>
  \/ \E r \in FReqs :
       FriendsInsert(r) /\ UNCHANGED <<codecVars, chatVars, hubVars, accountVars, historyVars, listVars, clientVars, netVars>>
  \/ \E r \in FReqs :
       FriendsQueryFails(r) /\ UNCHANGED <<codecVars, chatVars, hubVars, accountVars, historyVars, listVars, clientVars, netVars>>

InitCodec == CodecInit /\ ChatIdle /\ HubIdle /\ FriendsIdle /\ AccountsIdle /\ HistoryIdle /\ ListIdle /\ ClientIdle /\ NetIdle

SpecCodec == InitCodec /\ [][CodecNext]_vars

InitChatId == ChatInit /\ CodecIdle /\ HubIdle /\ FriendsIdle /\ AccountsIdle /\ HistoryIdle /\ ListIdle /\ ClientIdle /\ NetIdle

SpecChatId == InitChatId /\ [][ChatNext]_vars

Init == HubInit /\ CodecIdle /\ ChatIdle /\ FriendsIdle /\ AccountsIdle /\ HistoryIdle /\ ListIdle /\ ClientIdle /\ NetIdle

Spec == Init /\ [][Next]_vars

InitFriends == FriendsInit /\ CodecIdle /\ ChatIdle /\ HubIdle /\ AccountsIdle /\ HistoryIdle /\ ListIdle /\ ClientIdle /\ NetIdle

SpecFriends == InitFriends /\ [][FriendsNext]_vars

AccountsNext ==
  \/ \E r \in RegReqs, username \in Usernames \cup {<<>>}, email \in Emails,
        password \in {<<>>, <<112>>}, salt \in BcryptSalts :
       Register(r, username, email, password, salt)
         /\ UNCHANGED <<codecVars, chatVars, hubVars, friendVars, historyVars, listVars, clientVars, netVars>>
  \/ \E r \in RegReqs :
       DbInsertUser(r) /\ UNCHANGED <<codecVars, chatVars, hubVars, friendVars, historyVars, listVars, clientVars, netVars>>
  \/ \E r \in RegReqs :
       DbInsertUserFails(r) /\ UNCHANGED <<codecVars, chatVars, hubVars, friendVars, historyVars, listVars, clientVars, netVars>>
  \/ \E r \in LoginReqs, identifier \in Usernames \cup Emails, password \in Passwords :
       Login(r, identifier, password)
         /\ UNCHANGED <<codecVars, chatVars, hubVars, friendVars, historyVars, listVars, clientVars, netVars>>
  \/ \E r \in LoginReqs :
       DbSelectUser(r) /\ UNCHANGED <<codecVars, chatVars, hubVars, friendVars, historyVars, listVars, clientVars, netVars>>
  \/ \E r \in LoginReqs :
       DbSelectUserFails(r) /\ UNCHANGED <<codecVars, chatVars, hubVars, friendVars, historyVars, listVars, clientVars, netVars>>

InitAccounts == AccountsInit /\ CodecIdle /\ ChatIdle /\ HubIdle /\ FriendsIdle /\ HistoryIdle /\ ListIdle /\ ClientIdle /\ NetIdle

SpecAccounts == InitAccounts /\ [][AccountsNext]_vars

StoreNext ==
  \/ ClockTick /\ UNCHANGED <<codecVars, chatVars, hubVars, friendVars, accountVars, listVars, clientVars, netVars>>
  \/ \E r \in Appends, header \in SignedHeaders, chatId \in HubChatIds,
        content \in HubContents \ {<<>>}, iv \in RandomBytes :
       PostMessages(r, header, chatId, content, iv)
         /\ UNCHANGED <<codecVars, chatVars, friendVars, accountVars, historyVars, listVars, clientVars, netVars>>
  \/ \E r \in Appends :
       DbInsertMessage(r)
         /\ UNCHANGED <<codecVars, chatVars, friendVars, accountVars, historyVars, listVars, clientVars, netVars>>
  \/ \E r \in Appends :
       DbInsertFails(r)
         /\ UNCHANGED <<codecVars, chatVars, friendVars, accountVars, historyVars, listVars, clientVars, netVars>>
  \/ \E r \in Appends :
       PostMessagesResume(r)
         /\ UNCHANGED <<codecVars, chatVars, friendVars, accountVars, historyVars, listVars, clientVars, netVars>>
  \/ \E i \in 1..NumAppends :
       DbRowAltered(i)
         /\ UNCHANGED <<codecVars, chatVars, friendVars, accountVars, historyVars, listVars, clientVars, netVars>>
  \/ \E r \in HistReqs, header \in SignedHeaders, chatId \in HubChatIds :
       GetMessages(r, header, chatId)
         /\ UNCHANGED <<codecVars, chatVars, hubVars, friendVars, accountVars, listVars, clientVars, netVars>>
  \/ \E r \in HistReqs :
       DbSelectMessages(r)
         /\ UNCHANGED <<codecVars, chatVars, hubVars, friendVars, accountVars, listVars, clientVars, netVars>>
  \/ \E r \in HistReqs :
       DbSelectMessagesFails(r)
         /\ UNCHANGED <<codecVars, chatVars, hubVars, friendVars, accountVars, listVars, clientVars, netVars>>

InitStore ==
  StoreInit /\ HistoryInit /\ CodecIdle /\ ChatIdle /\ FriendsIdle /\ AccountsIdle /\ ListIdle /\ ClientIdle /\ NetIdle

SpecStore == InitStore /\ [][StoreNext]_vars

AuthChat == makeChatId(Num(1), Num(2))

NoRequestInFlight ==
  /\ \A r \in DOMAIN req : req[r].pc \in {"new", "done"}
  /\ \A r \in HistReqs : hreq[r].pc \in {"new", "done"}
  /\ \A r \in FReqs : freq[r].pc \in {"new", "done"}
  /\ \A r \in ListReqs : greq[r].pc \in {"new", "done"}

AuthNext ==
  \/ \E ws \in Conns :
       ws = 1 /\ WsConnection(ws)
         /\ UNCHANGED <<codecVars, chatVars, friendVars, accountVars, historyVars, listVars, clientVars, netVars>>
  \/ \E ws \in Conns, msg \in Frames :
       Subscribes(msg) /\ msg.chatId = AuthChat /\ ws \in DOMAIN subs
         /\ subs[ws] = {} /\ WsMessage(ws, msg)
         /\ UNCHANGED <<codecVars, chatVars, friendVars, accountVars, historyVars, listVars, clientVars, netVars>>
  \/ \E r \in Reqs, header \in AuthHeaders, chatId \in {AuthChat},
        content \in HubContents \ {<<>>}, iv \in RandomBytes :
       NoRequestInFlight /\ PostMessages(r, header, chatId, content, iv)
         /\ UNCHANGED <<codecVars, chatVars, friendVars, accountVars, historyVars, listVars, clientVars, netVars>>
  \/ \E r \in Reqs :
       DbInsertMessage(r)
         /\ UNCHANGED <<codecVars, chatVars, friendVars, accountVars, historyVars, listVars, clientVars, netVars>>
  \/ \E r \in Reqs :
       DbInsertFails(r)
         /\ UNCHANGED <<codecVars, chatVars, friendVars, accountVars, historyVars, listVars, clientVars, netVars>>
  \/ \E r \in Reqs :
       PostMessagesResume(r)
         /\ UNCHANGED <<codecVars, chatVars, friendVars, accountVars, historyVars, listVars, clientVars, netVars>>
  \/ \E r \in HistReqs, header \in AuthHeaders, chatId \in {AuthChat} :
       NoRequestInFlight /\ GetMessages(r, header, chatId)
         /\ UNCHANGED <<codecVars, chatVars, hubVars, friendVars, accountVars, listVars, clientVars, netVars>>
  \/ \E r \in HistReqs :
       DbSelectMessages(r)
         /\ UNCHANGED <<codecVars, chatVars, hubVars, friendVars, accountVars, listVars, clientVars, netVars>>
  \/ \E r \in HistReqs :
       DbSelectMessagesFails(r)
         /\ UNCHANGED <<codecVars, chatVars, hubVars, friendVars, accountVars, listVars, clientVars, netVars>>
  \/ \E r \in FReqs, header \in AuthHeaders, ident \in Identifiers \ {<<>>} :
       r = 1 /\ NoRequestInFlight /\ FriendsAdd(r, header, ident)
         /\ UNCHANGED <<codecVars, chatVars, hubVars, accountVars, historyVars, listVars, clientVars, netVars>>
  \/ \E r \in FReqs :
       FriendsLookupDone(r)
         /\ UNCHANGED <<codecVars, chatVars, hubVars, accountVars, historyVars, listVars, clientVars, netVars>>
  \/ \E r \in FReqs :
       FriendsCheckExisting(r)
         /\ UNCHANGED <<codecVars, chatVars, hubVars, accountVars, historyVars, listVars, clientVars, netVars>>
  \/ \E r \in FReqs :
       FriendsInsert(r)
         /\ UNCHANGED <<codecVars, chatVars, hubVars, accountVars, historyVars, listVars, clientVars, netVars>>
  \/ \E r \in FReqs :
       FriendsQueryFails(r)
         /\ UNCHANGED <<codecVars, chatVars, hubVars, accountVars, historyVars, listVars, clientVars, netVars>>
  \/ \E r \in ListReqs, header \in AuthHeaders :
       NoRequestInFlight /\ GetFriends(r, header)
         /\ UNCHANGED <<codecVars, chatVars, hubVars, friendVars, accountVars, historyVars, clientVars, netVars>>
  \/ \E r \in ListReqs :
       DbSelectFriends(r)
         /\ UNCHANGED <<codecVars, chatVars, hubVars, friendVars, accountVars, historyVars, clientVars, netVars>>
  \/ \E r \in ListReqs :
       DbSelectFriendsFails(r)
         /\ UNCHANGED <<codecVars, chatVars, hubVars, friendVars, accountVars, historyVars, clientVars, netVars>>

InitAuth ==
  /\ HubInit /\ HistoryInit /\ FriendsInit /\ ListIdle
  /\ CodecIdle /\ ChatIdle /\ AccountsIdle /\ ClientIdle /\ NetIdle

SpecAuth == InitAuth /\ [][AuthNext]_vars

ClientNext ==
  \/ ClientConnect
       /\ UNCHANGED <<codecVars, chatVars, friendVars, accountVars, listVars, hubVars, historyVars, netVars>>
  \/ ClientOnOpen
       /\ UNCHANGED <<codecVars, chatVars, friendVars, accountVars, listVars, hubVars, historyVars, netVars>>
  \/ \E contact \in Contacts :
       currentChatId = <<>> /\ ClientSelectContact(contact)
         /\ UNCHANGED <<codecVars, chatVars, friendVars, accountVars, listVars, hubVars, historyVars, netVars>>
  \/ \E t \in timer :
       ClientTimeout(t)
       /\ UNCHANGED <<codecVars, chatVars, friendVars, accountVars, listVars, hubVars, historyVars, netVars>>
  \/ ClientOnMessage
       /\ UNCHANGED <<codecVars, chatVars, friendVars, accountVars, listVars, hubVars, historyVars, netVars>>
  \/ \E r \in HistReqs :
       ClientApplyHistory(r)
         /\ UNCHANGED <<codecVars, chatVars, friendVars, accountVars, listVars, hubVars, historyVars, netVars>>
  \/ /\ cws = "CONNECTING"
     /\ WsConnection(ClientWs)
     /\ ClientReceives
     /\ UNCHANGED <<cws, currentChatId, cMessages, fetch, timer, toServer, seen>>
     /\ UNCHANGED <<codecVars, chatVars, friendVars, accountVars, listVars, historyVars, netVars>>
  \/ /\ toServer # <<>>
     /\ WsMessage(ClientWs, Head(toServer))
     /\ ClientSends
     /\ ClientReceives
     /\ UNCHANGED <<cws, currentChatId, cMessages, fetch, timer, seen>>
     /\ UNCHANGED <<codecVars, chatVars, friendVars, accountVars, listVars, historyVars, netVars>>
  \/ \E r \in HistReqs :
       /\ r \in DOMAIN fetch
       /\ GetMessages(r, ClientHeader, fetch[r].chatId)
       /\ ClientFetchArrives(r)
       /\ UNCHANGED <<codecVars, chatVars, friendVars, accountVars, listVars, hubVars, netVars>>
  \/ \E r \in HistReqs :
       DbSelectMessages(r)
         /\ UNCHANGED <<codecVars, chatVars, friendVars, accountVars, listVars, hubVars, clientVars, netVars>>
  \/ \E r \in HistReqs :
       DbSelectMessagesFails(r)
         /\ UNCHANGED <<codecVars, chatVars, friendVars, accountVars, listVars, hubVars, clientVars, netVars>>
  \/ \E r \in Reqs, header \in SignedHeaders, chatId \in HubChatIds,
        content \in HubContents \ {<<>>}, iv \in RandomBytes :
       /\ PostMessages(r, header, chatId, content, iv)
       /\ ClientReceives
       /\ UNCHANGED <<cws, currentChatId, cMessages, fetch, timer, toServer, seen>>
       /\ UNCHANGED <<codecVars, chatVars, friendVars, accountVars, listVars, historyVars, netVars>>
  \/ \E r \in Reqs :
       /\ DbInsertMessage(r)
       /\ ClientReceives
       /\ UNCHANGED <<cws, currentChatId, cMessages, fetch, timer, toServer, seen>>
       /\ UNCHANGED <<codecVars, chatVars, friendVars, accountVars, listVars, historyVars, netVars>>
  \/ \E r \in Reqs :
       /\ DbInsertFails(r)
       /\ ClientReceives
       /\ UNCHANGED <<cws, currentChatId, cMessages, fetch, timer, toServer, seen>>
       /\ UNCHANGED <<codecVars, chatVars, friendVars, accountVars, listVars, historyVars, netVars>>
  \/ \E r \in Reqs :
       /\ PostMessagesResume(r)
       /\ ClientReceives
       /\ UNCHANGED <<cws, currentChatId, cMessages, fetch, timer, toServer, seen>>
       /\ UNCHANGED <<codecVars, chatVars, friendVars, accountVars, listVars, historyVars, netVars>>

InitClient ==
  /\ HistoryInit /\ HubInit /\ ClientInit
  /\ CodecIdle /\ ChatIdle /\ FriendsIdle /\ AccountsIdle /\ ListIdle /\ NetIdle

SpecClient == InitClient /\ [][ClientNext]_vars

EchoContents == {<<104, 105>>, <<55357>>}

EchoNext ==
  \/ WsConnection(1) /\ UNCHANGED <<codecVars, chatVars, friendVars, accountVars, historyVars, listVars, clientVars, netVars>>
  \/ \E chatId \in {AuthChat} :
       WsMessage(1, [json |-> TRUE, type |-> "subscribe", chatId |-> chatId])
         /\ UNCHANGED <<codecVars, chatVars, friendVars, accountVars, historyVars, listVars, clientVars, netVars>>
  \/ \E r \in Appends, header \in SignedHeaders, chatId \in HubChatIds,
        content \in EchoContents, iv \in RandomBytes :
       PostMessages(r, header, chatId, content, iv)
         /\ UNCHANGED <<codecVars, chatVars, friendVars, accountVars, historyVars, listVars, clientVars, netVars>>
  \/ \E r \in Appends :
       DbInsertMessage(r) /\ UNCHANGED <<codecVars, chatVars, friendVars, accountVars, historyVars, listVars, clientVars, netVars>>
  \/ \E r \in Appends :
       DbInsertFails(r) /\ UNCHANGED <<codecVars, chatVars, friendVars, accountVars, historyVars, listVars, clientVars, netVars>>
  \/ \E r \in Appends :
       PostMessagesResume(r) /\ UNCHANGED <<codecVars, chatVars, friendVars, accountVars, historyVars, listVars, clientVars, netVars>>
  \/ \E r \in HistReqs, chatId \in HubChatIds :
       GetMessages(r, [bearer |-> TRUE, signed |-> TRUE, id |-> 1], chatId)
         /\ UNCHANGED <<codecVars, chatVars, hubVars, friendVars, accountVars, listVars, clientVars, netVars>>
  \/ \E r \in HistReqs :
       DbSelectMessages(r) /\ UNCHANGED <<codecVars, chatVars, hubVars, friendVars, accountVars, listVars, clientVars, netVars>>
  \/ \E r \in HistReqs :
       DbSelectMessagesFails(r) /\ UNCHANGED <<codecVars, chatVars, hubVars, friendVars, accountVars, listVars, clientVars, netVars>>

InitEcho ==
  StoreInit /\ HistoryInit /\ CodecIdle /\ ChatIdle /\ FriendsIdle /\ AccountsIdle /\ ListIdle /\ ClientIdle /\ NetIdle

SpecEcho == InitEcho /\ [][EchoNext]_vars

FanoutNext ==
  \/ \E ws \in Conns :
       WsConnection(ws) /\ UNCHANGED <<codecVars, chatVars, friendVars, accountVars, historyVars, listVars, clientVars, netVars>>
  \/ \E ws \in Conns, chatId \in HubChatIds :
       WsMessage(ws, [json |-> TRUE, type |-> "subscribe", chatId |-> chatId])
         /\ UNCHANGED <<codecVars, chatVars, friendVars, accountVars, historyVars, listVars, clientVars, netVars>>
  \/ \E ws \in Conns :
       SocketStalls(ws) /\ UNCHANGED <<codecVars, chatVars, hubVars, friendVars, accountVars, historyVars, listVars, clientVars>>
  \/ \E ws \in stalled :
       WsClosing(ws) /\ UNCHANGED <<codecVars, chatVars, friendVars, accountVars, historyVars, listVars, clientVars, netVars>>
  \/ \E ws \in Conns :
       WsClose(ws) /\ UNCHANGED <<codecVars, chatVars, friendVars, accountVars, historyVars, listVars, clientVars, netVars>>
  \/ \E r \in Reqs, header \in SignedHeaders, chatId \in HubChatIds,
        iv \in RandomBytes :
       PostMessages(r, header, chatId, <<104, 105>>, iv)
         /\ UNCHANGED <<codecVars, chatVars, friendVars, accountVars, historyVars, listVars, clientVars, netVars>>
  \/ \E r \in Reqs :
       DbInsertMessage(r) /\ UNCHANGED <<codecVars, chatVars, friendVars, accountVars, historyVars, listVars, clientVars, netVars>>
  \/ \E r \in Reqs :
       PostMessagesResume(r) /\ UNCHANGED <<codecVars, chatVars, friendVars, accountVars, historyVars, listVars, clientVars, netVars>>

InitFanout ==
  HubInit /\ NetIdle /\ CodecIdle /\ ChatIdle /\ FriendsIdle /\ AccountsIdle /\ HistoryIdle /\ ListIdle /\ ClientIdle

SpecFanout == InitFanout /\ [][FanoutNext]_vars

SwitchContacts == {1 + k : k \in 1..NumChats}

\* Frames and retries that a further chat switch may still add to.
Pending == (2 * Cardinality(timer)) + Len(toServer) + Len(toClient)

SwitchNext ==
  \/ ClientConnect
       /\ UNCHANGED <<codecVars, chatVars, friendVars, accountVars, listVars, hubVars, historyVars, netVars>>
  \/ ClientOnOpen
       /\ UNCHANGED <<codecVars, chatVars, friendVars, accountVars, listVars, hubVars, historyVars, netVars>>
  \/ \E contact \in SwitchContacts :
       /\ Pending + 2 <= MaxPending
       /\ ClientSelectContact(contact)
       /\ UNCHANGED <<codecVars, chatVars, friendVars, accountVars, listVars, hubVars, historyVars, netVars>>
  \/ \E t \in timer :
       ClientTimeout(t)
         /\ UNCHANGED <<codecVars, chatVars, friendVars, accountVars, listVars, hubVars, historyVars, netVars>>
  \/ ClientOnMessage
       /\ UNCHANGED <<codecVars, chatVars, friendVars, accountVars, listVars, hubVars, historyVars, netVars>>
  \/ /\ cws = "CONNECTING"
     /\ WsConnection(ClientWs)
     /\ ClientReceives
     /\ UNCHANGED <<cws, currentChatId, cMessages, fetch, timer, toServer, seen>>
     /\ UNCHANGED <<codecVars, chatVars, friendVars, accountVars, listVars, historyVars, netVars>>
  \/ /\ toServer # <<>>
     /\ WsMessage(ClientWs, Head(toServer))
     /\ ClientSends
     /\ ClientReceives
     /\ UNCHANGED <<cws, currentChatId, cMessages, fetch, timer, seen>>
     /\ UNCHANGED <<codecVars, chatVars, friendVars, accountVars, listVars, historyVars, netVars>>

InitSwitch ==
  /\ HistoryInit /\ HubInit /\ ClientInit
  /\ CodecIdle /\ ChatIdle /\ FriendsIdle /\ AccountsIdle /\ ListIdle /\ NetIdle

SpecSwitch == InitSwitch /\ [][SwitchNext]_vars

Fetches == 1..NumFetches

PeerHeader == [bearer |-> TRUE, signed |-> TRUE, id |-> 2]

FeedNext ==
  \/ ClientConnect
       /\ UNCHANGED <<codecVars, chatVars, friendVars, accountVars, listVars, hubVars, historyVars, netVars>>
  \/ ClientOnOpen
       /\ UNCHANGED <<codecVars, chatVars, friendVars, accountVars, listVars, hubVars, historyVars, netVars>>
  \/ \E contact \in SwitchContacts :
       /\ cws = "OPEN"
       /\ Pending + 2 <= MaxPending
       /\ \E r \in DOMAIN fetch : fetch[r].st = "idle"
       /\ ClientSelectContact(contact)
       /\ UNCHANGED <<codecVars, chatVars, friendVars, accountVars, listVars, hubVars, historyVars, netVars>>
  \/ ClientOnMessage
       /\ UNCHANGED <<codecVars, chatVars, friendVars, accountVars, listVars, hubVars, historyVars, netVars>>
  \/ \E r \in Fetches :
       ClientApplyHistory(r)
         /\ UNCHANGED <<codecVars, chatVars, friendVars, accountVars, listVars, hubVars, historyVars, netVars>>
  \/ /\ cws = "CONNECTING"
     /\ WsConnection(ClientWs)
     /\ ClientReceives
     /\ UNCHANGED <<cws, currentChatId, cMessages, fetch, timer, toServer, seen>>
     /\ UNCHANGED <<codecVars, chatVars, friendVars, accountVars, listVars, historyVars, netVars>>
  \/ /\ toServer # <<>>
     /\ WsMessage(ClientWs, Head(toServer))
     /\ ClientSends
     /\ ClientReceives
     /\ UNCHANGED <<cws, currentChatId, cMessages, fetch, timer, seen>>
     /\ UNCHANGED <<codecVars, chatVars, friendVars, accountVars, listVars, historyVars, netVars>>
  \/ \E r \in Fetches :
       /\ GetMessages(r, ClientHeader, fetch[r].chatId)
       /\ ClientFetchArrives(r)
       /\ UNCHANGED <<cws, currentChatId, cMessages, timer, toServer, toClient, seen>>
       /\ UNCHANGED <<codecVars, chatVars, friendVars, accountVars, listVars, hubVars, netVars>>
  \/ \E r \in Fetches :
       DbSelectMessages(r)
         /\ UNCHANGED <<codecVars, chatVars, friendVars, accountVars, listVars, hubVars, clientVars, netVars>>
  \/ \E r \in Appends, chatId \in HubChatIds, iv \in RandomBytes :
       /\ \A q \in Appends : req[q].pc \in {"new", "done"}
       /\ PostMessages(r, PeerHeader, chatId, <<104, 105>>, iv)
       /\ ClientReceives
       /\ UNCHANGED <<cws, currentChatId, cMessages, fetch, timer, toServer, seen>>
       /\ UNCHANGED <<codecVars, chatVars, friendVars, accountVars, listVars, historyVars, netVars>>
  \/ \E r \in Appends :
       /\ DbInsertMessage(r)
       /\ ClientReceives
       /\ UNCHANGED <<cws, currentChatId, cMessages, fetch, timer, toServer, seen>>
       /\ UNCHANGED <<codecVars, chatVars, friendVars, accountVars, listVars, historyVars, netVars>>
  \/ \E r \in Appends :
       /\ PostMessagesResume(r)
       /\ ClientReceives
       /\ UNCHANGED <<cws, currentChatId, cMessages, fetch, timer, toServer, seen>>
       /\ UNCHANGED <<codecVars, chatVars, friendVars, accountVars, listVars, historyVars, netVars>>

InitFeed ==
  /\ now = 1 /\ hreq = [r \in Fetches |-> NewHReq]
  /\ StoreInit /\ ClientInit
  /\ CodecIdle /\ ChatIdle /\ FriendsIdle /\ AccountsIdle /\ ListIdle /\ NetIdle

SpecFeed == InitFeed /\ [][FeedNext]_vars

(* ---------------------------------------------------------------------- *)
(* Properties                                                              *)
(* ---------------------------------------------------------------------- *)
BroadcastStep(r) == req[r].pc = "resolved" /\ req'[r].pc = "done"

IsMessageOf(frame, r) ==
  /\ frame.type = "message"
  /\ frame.chatId = req[r].chatId
  /\ frame.id = Digits(req[r].rowId)
  /\ frame.content = req[r].content

HubDeliveryStep ==
  \A r \in Reqs : BroadcastStep(r) =>
    \A c \in DOMAIN subs :
      /\ (readyState[c] = "OPEN" /\ req[r].chatId \in subs[c])
           => (Len(sent'[c]) = 1 /\ IsMessageOf(sent'[c][1], r))
      /\ (req[r].chatId \notin subs[c]) => sent'[c] = <<>>

\* C1: a broadcast to chat X hands every open connection subscribed to X
\* exactly one 'message' frame carrying the message, and hands nothing to a
\* connection that is not subscribed to X.
HubDelivery == [][HubDeliveryStep]_vars

HubDeliveryWitness ==
  \E c1 \in DOMAIN subs, c2 \in DOMAIN subs :
    /\ c1 # c2
    /\ Len(sent[c1]) = 1
    /\ sent[c1][1].type = "message"
    /\ sent[c1][1].chatId \in subs[c1]
    /\ readyState[c2] = "OPEN"
    /\ subs[c2] # {}
    /\ sent[c1][1].chatId \notin subs[c2]
    /\ sent[c2] = <<>>

\* C2: once a connection has processed unsubscribe for chat X (and has not
\* subscribed to X again), or once its close event has been handled, no
\* broadcast hands it a message of X.
NoDeliveryAfterUnsubscribeOrClose ==
  \A c \in Conns : \A i \in 1..Len(sent[c]) :
    sent[c][i].type = "message" =>
      /\ sent[c][i].chatId \notin unsubscribed[c]
      /\ readyState[c] # "CLOSED"
      /\ c \in DOMAIN subs

NoDeliveryAfterUnsubscribeWitness ==
  \E c1 \in Conns, c2 \in Conns :
    /\ Len(sent[c2]) = 1
    /\ sent[c2][1].type = "message"
    /\ readyState[c1] = "OPEN"
    /\ sent[c2][1].chatId \in unsubscribed[c1]
    /\ sent[c1] = <<>>

BroadcastAfterInsertStep ==
  /\ \A c \in Conns : \A i \in 1..Len(sent'[c]) :
       sent'[c][i].type = "message" =>
         \E k \in 1..Len(messages) :
           /\ Digits(messages[k].id) = sent'[c][i].id
           /\ messages[k].chat_id = sent'[c][i].chatId
  /\ \A r \in Reqs :
       (req[r].pc = "rejected" /\ req'[r].pc = "done")
         => (sent' = NothingSent /\ req'[r].status = 500)
  /\ \A k \in 1..Len(messages) : k <= Len(messages') /\ messages'[k] = messages[k]

\* C3: a message is broadcast only when its row is already in the messages
\* table; a request whose insert failed broadcasts nothing and answers 500; rows
\* are never removed, so every delivered message stays present in storage.
BroadcastAfterInsert == [][BroadcastAfterInsertStep]_vars

BroadcastAfterInsertWitness ==
  \E c \in Conns :
    /\ Len(sent[c]) = 1
    /\ sent[c][1].type = "message"
    /\ \E k \in 1..Len(messages) : Digits(messages[k].id) = sent[c][1].id
    /\ \E r \in Reqs : req[r].status = 200

SkipsNotOpenStep ==
  /\ \A c \in Conns : \A i \in 1..Len(sent'[c]) :
       sent'[c][i].type = "message" =>
         /\ readyState[c] = "OPEN"
         /\ \E r \in Reqs : BroadcastStep(r) /\ IsMessageOf(sent'[c][i], r)
  /\ \A r \in Reqs : BroadcastStep(r) =>
       /\ req'[r].status = 200
       /\ \A c \in DOMAIN subs :
            /\ readyState[c] # "OPEN" => sent'[c] = <<>>
            /\ (readyState[c] = "OPEN" /\ req[r].chatId \in subs[c])
                 => sent'[c] # <<>>

\* C4: a broadcast writes nothing to a registered connection that is not
\* open, still answers 200 and still reaches the open subscribers; a message
\* frame is only ever written during the broadcast step of its own request,
\* so a skipped message is not delivered later.
SkipsNotOpen == [][SkipsNotOpenStep]_vars

SkipsNotOpenWitness ==
  \E c1 \in DOMAIN subs, c2 \in DOMAIN subs :
    /\ readyState[c1] = "CLOSING"
    /\ Len(sent[c2]) = 1
    /\ sent[c2][1].type = "message"
    /\ sent[c2][1].chatId \in subs[c1]
    /\ sent[c1] = <<>>

LexLeq(x, y) ==
  \/ /\ Len(x) <= Len(y)
     /\ \A i \in 1..Len(x) : x[i] = y[i]
  \/ \E i \in 1..Len(x) :
       /\ i <= Len(y)
       /\ x[i] < y[i]
       /\ \A j \in 1..(i - 1) : x[j] = y[j]

\* C5: makeChatId(a, b) = makeChatId(b, a) for all ids, numbers or strings,
\* equal or not, and the result is "chat_" lo "_" hi with lo the string-wise
\* smaller of String(a), String(b).
ChatIdSymmetric ==
  derived =>
    /\ chatAB = chatBA
    /\ \E lo \in {String(idA), String(idB)}, hi \in {String(idA), String(idB)} :
         /\ {lo, hi} = {String(idA), String(idB)}
         /\ LexLeq(lo, hi)
         /\ chatAB = CHAT_PREFIX \o lo \o <<UNDERSCORE>> \o hi

ChatIdSymmetricWitness ==
  /\ derived
  /\ idA.isNum /\ ~ idB.isNum
  /\ String(idA) # String(idB)
  /\ LexLeq(String(idB), String(idA))
  /\ Len(String(idB)) > Len(String(idA))

WellFormed(text) ==
  \A i \in 1..Len(text) :
    /\ IsHigh(text[i]) => (i < Len(text) /\ IsLow(text[i + 1]))
    /\ IsLow(text[i]) => (i > 1 /\ IsHigh(text[i - 1]))

\* C6 as stated: decrypt of the pair returned by encrypt(m) returns m, for
\* every string m.
RoundTripEveryString ==
  (cstage = "decrypted" /\ tamper = "none") => (dec.ok /\ dec.text = plain)

\* C6: decrypt of the pair returned by encrypt(m) returns m, for every
\* string m without an unpaired surrogate (the empty string and multi-byte
\* text included).
RoundTripWellFormed ==
  (cstage = "decrypted" /\ tamper = "none" /\ WellFormed(plain))
    => (dec.ok /\ dec.text = plain)

RoundTripWitness ==
  /\ cstage = "decrypted"
  /\ tamper = "none"
  /\ plain = <<55357, 56832>>
  /\ dec.ok
  /\ envKey # <<>>

\* C7: after one bit of the ciphertext, of the tag or of the IV of a pair
\* returned by encrypt is changed, decrypt fails; it returns no plaintext.
TamperFails == (cstage = "decrypted" /\ tamper # "none") => ~ dec.ok

TamperFailsWitness ==
  /\ cstage = "decrypted"
  /\ tamper = "iv"
  /\ plain # <<>>
  /\ ~ dec.ok

\* C9: the process only starts with a configured key of exactly 32 bytes;
\* any other configured key stops startup.
KeyValidatedAtStartup ==
  (started /\ envKey # <<>>) => Len(Utf8Encode(envKey)) = KEY_LEN

SamePair(r1, r2) ==
  /\ freq[r1].user = freq[r2].user
  /\ freq[r1].friend = freq[r2].friend

EdgeCount(user, friend) ==
  Cardinality({i \in 1..Len(friends) :
                 friends[i].user_id = user /\ friends[i].friend_id = friend})

\* C10: when A has added B (answered 200) and A adds B again with storage
\* answering every query, the second call answers 200 and storage holds
\* exactly one edge (A,B) and one edge (B,A).
AddFriendIdempotent ==
  \A r1 \in FReqs, r2 \in FReqs :
    (/\ r1 < r2
     /\ freq[r1].pc = "done" /\ freq[r1].status = 200
     /\ freq[r2].pc = "done" /\ freq[r2].status # 500
     /\ freq[r2].friend # 0 /\ SamePair(r1, r2))
      => /\ freq[r2].status = 200
         /\ EdgeCount(freq[r1].user, freq[r1].friend) = 1
         /\ EdgeCount(freq[r1].friend, freq[r1].user) = 1

\* C11: in every state of the friends table, the two inserts of one call
\* and failed inserts included, edge (A,B) is stored exactly when edge (B,A)
\* is stored.
FriendSymmetry ==
  \A a \in UserIds, b \in UserIds :
    HasEdge(friends, a, b) <=> HasEdge(friends, b, a)

NoSelfEdge(rows) == \A i \in 1..Len(rows) : rows[i].user_id # rows[i].friend_id

AddFriendRejectsStep ==
  /\ NoSelfEdge(friends')
  /\ \A r \in FReqs :
       /\ (freq[r].pc = "lookup" /\ freq'[r].pc # "lookup" /\ freq[r].friend = 0)
            => /\ freq'[r].pc = "done" /\ freq'[r].status \in {404, 500}
               /\ friends' = friends
       /\ (freq[r].pc = "lookup" /\ freq'[r].pc # "lookup"
             /\ freq[r].friend = freq[r].user)
            => /\ freq'[r].pc = "done" /\ freq'[r].status \in {400, 500}
               /\ friends' = friends
       /\ (freq[r].pc = "done" /\ freq[r].status \in {400, 404})
            => freq'[r] = freq[r]

\* C18: a call whose identifier names no user is answered 404, a call whose
\* identifier names the caller is answered 400 (500 when the lookup query
\* itself fails), both leave the friends table as it was and end the call;
\* no row (A,A) is ever stored.
AddFriendRejects == [][AddFriendRejectsStep]_vars

AddFriendRejectsWitness ==
  /\ friends # <<>>
  /\ \E r \in FReqs :
       /\ freq[r].pc = "done" /\ freq[r].user # 0
       /\ \/ freq[r].status = 400 /\ freq[r].friend = freq[r].user
          \/ freq[r].status = 404 /\ freq[r].friend = 0

IgnoredFrame(msg) ==
  \/ ~ msg.json
  \/ msg.type \notin {"subscribe", "unsubscribe"}
  \/ msg.chatId = <<>>

IgnoredFrameStep ==
  \A ws \in Conns, msg \in Frames :
    (IgnoredFrame(msg) /\ WsMessage(ws, msg))
      => /\ readyState' = readyState
         /\ subs' = subs
         /\ sent' = NothingSent

\* C19: a frame that is not JSON, whose type is neither subscribe nor
\* unsubscribe, or that has no chatId leaves every connection open and
\* registered with the subscription sets it had, and nothing is sent.
MalformedFrameIgnored == [][IgnoredFrameStep]_vars

MalformedFrameIgnoredWitness ==
  \E ws \in Conns :
    /\ dropped
    /\ \A c \in Conns : readyState[c] # "CLOSED"
    /\ readyState[ws] = "OPEN" /\ ws \in DOMAIN subs
    /\ subs[ws] # {}
    /\ sent = NothingSent

UsersUnique(rows) ==
  \A i \in 1..Len(rows), j \in 1..Len(rows) :
    i # j => /\ rows[i].username # rows[j].username
             /\ rows[i].id # rows[j].id
             /\ (rows[i].email # <<>> => rows[i].email # rows[j].email)

RegisterConflictStep ==
  /\ UsersUnique(userRows')
  /\ \A r \in RegReqs :
       (/\ rreq[r].pc = "insert" /\ rreq'[r].pc = "done" /\ rreq'[r].status # 500
        /\ \E i \in 1..Len(userRows) :
              \/ userRows[i].username = rreq[r].username
              \/ rreq[r].email # <<>> /\ userRows[i].email = rreq[r].email)
         => /\ rreq'[r].status = 400
            /\ rreq'[r].error = "Username or email already exists"
            /\ userRows' = userRows

\* C17: a register call whose username or (non-null) email is already in
\* the users table is answered with the conflict error and adds no row; after
\* any interleaving of register calls no two rows share a username and no
\* two rows share a non-null email.
RegisterConflict == [][RegisterConflictStep]_vars

RegisterConflictWitness ==
  \E r1 \in RegReqs, r2 \in RegReqs :
    /\ rreq[r1].pc = "done" /\ rreq[r1].status = 200
    /\ rreq[r2].pc = "done" /\ rreq[r2].status = 400
    /\ rreq[r2].error = "Username or email already exists"
    /\ rreq[r1].username # rreq[r2].username
    /\ rreq[r1].email = rreq[r2].email
    /\ Len(userRows) = 1

HistoryAnswered(r) ==
  hreq[r].pc = "query" /\ hreq'[r].pc = "done" /\ hreq'[r].status = 200

HistoryOrderedByIdStep ==
  \A r \in HistReqs :
    HistoryAnswered(r) =>
      LET want == ChatRows(messages, hreq[r].chatId)
          got == hreq'[r].messages
      IN /\ Len(got) = Len(want)
         /\ \A i \in 1..Len(got) : got[i].id = Digits(want[i].id)

\* C14: a history request answered 200 lists all rows of the chat in
\* ascending id order (the order of insertion), whatever their created_at
\* values are.
HistoryOrderedById == [][HistoryOrderedByIdStep]_vars

HistorySkipsUndecryptableStep ==
  \A r \in HistReqs :
    DbSelectMessages(r) =>
      LET rows == ChatRows(messages, hreq[r].chatId)
          readable == {Digits(rows[i].id) : i \in {j \in 1..Len(rows) : Decrypted(rows[j]).ok}}
          got == hreq'[r].messages
      IN /\ hreq'[r].status = 200
         /\ {got[i].id : i \in 1..Len(got)} = readable

\* C15: when the select of a history request is answered by storage, the
\* response is 200 and lists exactly the rows of the chat that decrypt; a row
\* that fails to decrypt is left out and the others are still returned.
HistorySkipsUndecryptable == [][HistorySkipsUndecryptableStep]_vars

AppendIdsStep ==
  /\ nextMsgId' >= nextMsgId
  /\ \A i \in 1..Len(messages') : messages'[i].id < nextMsgId'
  /\ \A i \in 1..Len(messages'), j \in 1..Len(messages') :
       i < j => messages'[i].id < messages'[j].id
  /\ \A i \in 1..Len(messages) :
       i <= Len(messages') /\ messages'[i].id = messages[i].id
  /\ \A r \in Appends :
       /\ (req[r].pc = "query" /\ req'[r].pc = "resolved")
            => /\ Len(messages') = Len(messages) + 1
               /\ messages'[Len(messages')].id = req'[r].rowId
               /\ messages'[Len(messages')].chat_id = req[r].chatId
               /\ messages'[Len(messages')].sender_id = req[r].user
       /\ (req[r].pc = "resolved" /\ req'[r].pc # "resolved")
            => req'[r].pc = "done" /\ req'[r].status = 200

BadHeader(header) == ~ header.bearer \/ ~ header.signed

AuthRejectsStep ==
  /\ \A header \in AuthHeaders :
       BadHeader(header) =>
         /\ \A r \in DOMAIN req, chatId \in HubChatIds, content \in HubContents,
               iv \in RandomBytes :
              PostMessages(r, header, chatId, content, iv)
                => /\ req'[r].pc = "done" /\ req'[r].status = 401
                   /\ messages' = messages /\ sent' = NothingSent
         /\ \A r \in HistReqs, chatId \in HubChatIds :
              GetMessages(r, header, chatId)
                => /\ hreq'[r].pc = "done" /\ hreq'[r].status = 401
                   /\ hreq'[r].messages = <<>>
         /\ \A r \in FReqs, ident \in Identifiers :
              FriendsAdd(r, header, ident)
                => /\ freq'[r].pc = "done" /\ freq'[r].status = 401
                   /\ friends' = friends
         /\ \A r \in ListReqs :
              GetFriends(r, header)
                => /\ greq'[r].pc = "done" /\ greq'[r].status = 401
                   /\ greq'[r].friends = <<>>
  /\ \A r \in DOMAIN req : req[r].status = 401 => req'[r] = req[r]
  /\ \A r \in HistReqs : hreq[r].status = 401 => hreq'[r] = hreq[r]
  /\ \A r \in FReqs : freq[r].status = 401 => freq'[r] = freq[r]
  /\ \A r \in ListReqs : greq[r].status = 401 => greq'[r] = greq[r]

\* C13: on each of the four authenticated routes a request without an
\* Authorization header of the form 'Bearer <token>', or with a token that
\* does not verify, is answered 401 in the step that receives it: no row is
\* added to messages, nothing is broadcast, no friends row is added, no rows
\* are returned, and the request takes no later step.
AuthRejects == [][AuthRejectsStep]_vars

AuthRejectsWitness ==
  /\ \E ws \in Conns : readyState[ws] = "OPEN" /\ AuthChat \in subs[ws]
  /\ \E r \in DOMAIN req : req[r].pc = "done" /\ req[r].status = 401
  /\ \E r \in HistReqs : hreq[r].pc = "done" /\ hreq[r].status = 401
  /\ \E r \in FReqs : freq[r].pc = "done" /\ freq[r].status = 401
  /\ \E r \in ListReqs : greq[r].pc = "done" /\ greq[r].status = 401
  /\ messages = <<>> /\ friends = <<>> /\ sent = NothingSent

ClientSettled ==
  /\ currentChatId # <<>>
  /\ ClientWs \in DOMAIN subs /\ currentChatId \in subs[ClientWs]
  /\ \A r \in DOMAIN fetch : fetch[r].st = "applied"
  /\ \A r \in HistReqs : hreq[r].pc = "done" => hreq[r].status = 200
  /\ toServer = <<>> /\ toClient = <<>> /\ timer = NoTimer
  /\ \A r \in DOMAIN req : req[r].pc \in {"new", "done"}

\* C20: once the client's subscribe for the selected chat has been handled,
\* its history response (answered 200) has been applied and no frame or
\* append is still under way, every row stored for that chat is in the
\* client's message list.
ClientSeesAllCommitted ==
  ClientSettled =>
    \A i \in 1..Len(messages) :
      messages[i].chat_id = currentChatId
        => \E k \in 1..Len(cMessages) : cMessages[k] = Digits(messages[i].id)

Registered(ws) == readyState[ws] \in {"OPEN", "CLOSING"}

ClosedIsTerminalStep ==
  \A ws \in Conns :
    /\ ws \in DOMAIN subs' <=> Registered(ws)'
    /\ readyState[ws] = "CLOSED"
         => (readyState'[ws] = "CLOSED" /\ ws \notin DOMAIN subs')

\* C21: the subscription map holds exactly the connections that connected and
\* whose close event has not been handled; a closed connection stays closed
\* and without an entry, also when a frame is processed for it afterwards.
ClosedIsTerminal == [][ClosedIsTerminalStep]_vars

ClosedIsTerminalWitness ==
  /\ dropped
  /\ \A ws \in Conns : readyState[ws] = "CLOSED" /\ ws \notin DOMAIN subs
  /\ messages # <<>>

Appended(q) == req[q].rowId # 0

EntriesOf(list, q) ==
  {i \in 1..Len(list) : list[i].id = Digits(req[q].rowId)}

EchoOnBroadcast(r) ==
  BroadcastStep(r) =>
    /\ req'[r].status = 200
    /\ req'[r].rowId = req[r].rowId /\ req'[r].content = req[r].content
    /\ req'[r].chatId = req[r].chatId /\ req'[r].user = req[r].user
    /\ \A c \in Conns : \A i \in 1..Len(sent'[c]) : IsMessageOf(sent'[c][i], r)

EchoInHistory(h, q) ==
  LET list == hreq'[h].messages
  IN IF req[q].chatId = hreq[h].chatId
       THEN /\ Cardinality(EntriesOf(list, q)) = 1
            /\ \A i \in EntriesOf(list, q) :
                 /\ list[i].sender_id = Digits(req[q].user)
                 /\ list[i].chat_id = req[q].chatId
                 /\ list[i].content = req[q].content
       ELSE EntriesOf(list, q) = {}

AppendEchoStep ==
  /\ \A r \in DOMAIN req : EchoOnBroadcast(r)
  /\ \A h \in HistReqs :
       (hreq[h].pc = "query" /\ hreq'[h].pc = "done" /\ hreq'[h].status = 200)
         => \A q \in DOMAIN req : Appended(q) => EchoInHistory(h, q)

AppendEchoWellFormedStep ==
  /\ \A r \in DOMAIN req : EchoOnBroadcast(r)
  /\ \A h \in HistReqs :
       (hreq[h].pc = "query" /\ hreq'[h].pc = "done" /\ hreq'[h].status = 200)
         => \A q \in DOMAIN req :
              (Appended(q) /\ WellFormed(req[q].content)) => EchoInHistory(h, q)

\* C22 as stated: every appended message is in every later answered history
\* of its chat, once, with its id, its sender and its plaintext, and in no
\* history of another chat; the response and the broadcast carry that id and
\* plaintext.
AppendEcho == [][AppendEchoStep]_vars

\* C22, for plaintexts without an unpaired surrogate: every appended message
\* is in every later answered history of its chat, once, with its id, its
\* sender and its plaintext, and in no history of another chat; the response
\* and the broadcast carry that id and plaintext whatever the plaintext is.
AppendEchoWellFormed == [][AppendEchoWellFormedStep]_vars

AppendEchoWitness ==
  \E h \in HistReqs, q1 \in DOMAIN req, q2 \in DOMAIN req :
    /\ hreq[h].pc = "done" /\ hreq[h].status = 200
    /\ req[q1].pc = "done" /\ req[q1].status = 200
    /\ req[q2].pc = "done" /\ req[q2].status = 200
    /\ req[q1].chatId = hreq[h].chatId /\ req[q2].chatId # hreq[h].chatId
    /\ WellFormed(req[q1].content)
    /\ Len(hreq[h].messages) = 1
    /\ hreq[h].messages[1].id = Digits(req[q1].rowId)
    /\ hreq[h].messages[1].content = req[q1].content

StoredFor(row, q) ==
  /\ req[q].rowId = row.id
  /\ row.chat_id = req[q].chatId /\ row.sender_id = req[q].user
  /\ \E iv \in RandomBytes :
       LET e == encrypt(req[q].content, iv, ENCRYPTION_KEY)
       IN e.ok /\ row.content = e.data /\ row.iv = e.iv
  /\ row.content # req[q].content
  /\ row.content # Base64Encode(Utf8Encode(req[q].content))

\* C23: every stored message row holds, as content and iv, what encrypt
\* returned for the plaintext of the request that inserted it, and its content
\* is not that plaintext.
PlaintextNeverStored ==
  \A k \in 1..Len(messages) : \E q \in DOMAIN req : StoredFor(messages[k], q)

PlaintextNeverStoredWitness ==
  /\ Len(messages) = 2
  /\ \E q1 \in DOMAIN req, q2 \in DOMAIN req :
       /\ StoredFor(messages[1], q1) /\ StoredFor(messages[2], q2)
       /\ req[q1].content # req[q2].content
       /\ req[q1].pc = "done" /\ req[q2].pc = "resolved"

OwnFrameStep(c, msg) ==
  WsMessage(c, msg) =>
    /\ msg.json /\ msg.type = "subscribe" /\ msg.chatId # <<>>
         => subs'[c] = subs[c] \cup {msg.chatId}
    /\ msg.json /\ msg.type = "unsubscribe" /\ msg.chatId # <<>>
         => subs'[c] = subs[c] \ {msg.chatId}
    /\ \A d \in DOMAIN subs \ {c} : d \in DOMAIN subs' /\ subs'[d] = subs[d]

SubscriptionsOwnedStep ==
  \A c \in Conns :
    /\ (c \notin DOMAIN subs /\ c \in DOMAIN subs') => subs'[c] = {}
    /\ \A msg \in Frames : OwnFrameStep(c, msg)
    /\ (c \in DOMAIN subs /\ c \in DOMAIN subs'
          /\ ~ \E msg \in Frames : WsMessage(c, msg))
         => subs'[c] = subs[c]

\* C24: a connection is registered with the empty set; its set gains X exactly
\* when it sent subscribe X itself and loses X exactly when it sent unsubscribe
\* X itself; a step that is not a frame of that connection (a frame of another
\* connection, a broadcast, an HTTP request) leaves its set as it was.
SubscriptionsOwned == [][SubscriptionsOwnedStep]_vars

SubscriptionsOwnedWitness ==
  \E c1 \in DOMAIN subs, c2 \in DOMAIN subs :
    /\ c1 # c2
    /\ subs[c1] # {} /\ subs[c2] # {} /\ subs[c1] # subs[c2]
    /\ unsubscribed[c1] # {}
    /\ \E r \in Reqs : req[r].status = 200

IsAck(frame, type, chatId) ==
  /\ frame.type = type /\ frame.chatId = chatId
  /\ frame.id = <<>> /\ frame.sender_id = <<>> /\ frame.content = <<>>

AckedStep(c, msg, type) ==
  /\ Len(sent'[c]) = 1
  /\ IsAck(sent'[c][1], type, msg.chatId)
  /\ \A d \in Conns \ {c} : sent'[d] = <<>>

FrameAcknowledgedStep ==
  \A c \in Conns, msg \in Frames :
    WsMessage(c, msg) =>
      /\ (msg.json /\ msg.type = "subscribe" /\ msg.chatId # <<>>)
           => AckedStep(c, msg, "subscribed")
      /\ (msg.json /\ msg.type = "unsubscribe" /\ msg.chatId # <<>>)
           => AckedStep(c, msg, "unsubscribed")

\* C25: the handler of a subscribe (unsubscribe) frame with a chatId writes
\* exactly one 'subscribed' ('unsubscribed') frame with that chatId to the
\* sending connection and nothing to any other, whether or not the chat was in
\* the connection's set before.
FrameAcknowledged == [][FrameAcknowledgedStep]_vars

FrameAcknowledgedWitness ==
  \E c \in DOMAIN subs, d \in DOMAIN subs :
    /\ c # d
    /\ Len(sent[c]) = 1
    /\ sent[c][1].type = "unsubscribed"
    /\ sent[c][1].chatId \in unsubscribed[c]
    /\ sent[c][1].chatId \in subs[d] /\ readyState[d] = "OPEN"
    /\ sent[d] = <<>>

Subscriber(c, chatId) ==
  c \in DOMAIN subs /\ readyState[c] = "OPEN" /\ chatId \in subs[c]

IndependentDispatchStep ==
  \A r \in Reqs :
    (BroadcastStep(r) /\ \E s \in stalled : Subscriber(s, req[r].chatId))
      => /\ req'[r].status = 200
         /\ \A d \in Conns :
              Subscriber(d, req[r].chatId)
                => (Len(sent'[d]) = 1 /\ IsMessageOf(sent'[d][1], r))

RetriesDone ==
  /\ cws = "OPEN" /\ currentChatId # <<>>
  /\ timer = NoTimer /\ toServer = <<>>

\* C28: once the socket is open, no subscribe retry is pending and the server
\* has handled every frame the client sent, the client's connection is
\* subscribed to the selected chat and to nothing else.
SubscribedToSelectedOnly ==
  RetriesDone =>
    (ClientWs \in DOMAIN subs /\ subs[ClientWs] = {currentChatId})

NoTwoEntries(list) ==
  \A i \in 1..Len(list), j \in 1..Len(list) : list[i] = list[j] => i = j

OnMessageStep == toClient # <<>> /\ toClient' = Tail(toClient)

ClientDedupesStep ==
  /\ NoTwoEntries(cMessages')
  /\ (/\ OnMessageStep
      /\ Head(toClient).type = "message"
      /\ Head(toClient).chatId # currentChatId)
       => cMessages' = cMessages

Participant(user, chatId) ==
  \E other \in 0..MaxIdNum : chatId = makeChatId(Num(user), Num(other))

\* The 'connection' handler reads no token and keeps no user for the socket.
ConnUser(ws) == 0

StoredByParticipants ==
  \A k \in 1..Len(messages) :
    Participant(messages[k].sender_id, messages[k].chat_id)

DeliveredToParticipants ==
  \A c \in Conns : \A i \in 1..Len(sent[c]) :
    sent[c][i].type = "message"
      => (ConnUser(c) # 0 /\ Participant(ConnUser(c), sent[c][i].chatId))

\* C29: every stored message of chat X was sent by a participant of X, and a
\* 'message' frame of X is written only to a connection that belongs to an
\* authenticated participant of X.
ParticipantsOnly == StoredByParticipants /\ DeliveredToParticipants

====
